---- MODULE Spec2Model ----
(***************************************************************************)
(* A model of the quoting tool: the generateQuote service (response        *)
(* parsing and step normalisation), the caller handleGenerateQuote, and    *)
(* the QuoteResult editor (edit handlers, totals, save).                   *)
(*                                                                         *)
(* JavaScript values are tagged records of one shape, so that any two can  *)
(* be compared.  Numbers are exact decimals n / 100^d (IEEE rounding is    *)
(* not modelled); NaN is a value of its own.                               *)
(***************************************************************************)
EXTENDS Integers, Sequences, FiniteSets, TLC

VARIABLES
    page,          \* App: the page shown
    error,         \* App: <<>> for null, else <<prefix, message>>
    currentQuote,  \* App: <<>> for null, else <<quote>>
    savedQuotes,   \* App: the saved list
    nextId,        \* the clock behind Date.now() / new Date(): ids handed out
    gqPc,          \* generateQuote: "idle", "awaitModel", "returned", "threw"
    gqCall,        \* generateQuote: <<>> or <<the model call as it settled>>
    gqOutcome,     \* generateQuote: what the last invocation returned or threw
    editedQuote,   \* QuoteResult: <<>> when not mounted, else <<editedQuote>>
    lastEdit,      \* QuoteResult: the last edit event and the value it met
    gqInFlight,    \* generateQuote: model calls issued and not yet settled
    currentImages, \* App: the number of images kept
    userSettings,  \* App: the settings
    storage,       \* localStorage: the items 'savedQuotes' and 'userSettings'
    startup,       \* App: how far the first render and its effects have got
    qr,            \* QuoteResult: viewMode, reportData, isGeneratingReport,
                   \* isPrinting of the mounted instance
    reportCalls,   \* generateTechnicalReport: model calls in flight, of the
                   \* mounted QuoteResult and of instances since unmounted
    inv,           \* one invocation of a service function, step by step
    pdf,           \* QuoteResult: the download clicks, the generatePdf timers
                   \* pending, the runs under way and the files saved
    doc,           \* generatePdf: the sections and where they were placed
    service        \* the service module: its environment, whether it loaded

vars == <<page, error, currentQuote, savedQuotes, nextId, gqPc, gqCall,
          gqOutcome, editedQuote, lastEdit, gqInFlight, currentImages,
          userSettings, storage, startup, qr, reportCalls, inv, pdf, doc,
          service>>

\* the state outside the App's pages and quotes
storeVars == <<userSettings, storage, startup>>

-----------------------------------------------------------------------------
(* Bounds *)

MaxSteps == 2
MaxText == 5
MaxCalls == 2
MaxImages == 2
MaxClock == 5
MaxTimers == 3
MaxSections == 3

-----------------------------------------------------------------------------
(* JavaScript values *)

Undef == [t |-> "undefined", n |-> 0, d |-> 0, s |-> ""]
Null == [t |-> "null", n |-> 0, d |-> 0, s |-> ""]
NaN == [t |-> "nan", n |-> 0, d |-> 0, s |-> ""]
Obj == [t |-> "object", n |-> 0, d |-> 0, s |-> ""]
Str(s) == [t |-> "string", n |-> 0, d |-> 0, s |-> s]

RECURSIVE Norm(_, _)
\* the canonical form of the decimal n / 100^d
Norm(n, d) ==
    IF n = 0 THEN [t |-> "number", n |-> 0, d |-> 0, s |-> ""]
    ELSE IF d > 0 /\ n % 100 = 0 THEN Norm(n \div 100, d - 1)
    ELSE [t |-> "number", n |-> n, d |-> d, s |-> ""]

Num(n) == Norm(n, 0)

RECURSIVE Pow100(_)
Pow100(k) == IF k = 0 THEN 1 ELSE 100 * Pow100(k - 1)

IsNum(v) == v.t = "number"
\* isNaN applied to a number
IsNaN(v) == v.t = "nan"

\* the decimal strings the inputs use, with the number each one reads as
NumericLiterals ==
    { <<"0", 0>>, <<"1", 1>>, <<"2", 2>>, <<"3", 3>>, <<"-1", -1>>,
      <<"23", 23>>, <<"30", 30>>, <<"50", 50>> }

\* StringToNumber: the empty string reads as 0, a decimal literal as its
\* value, anything else as NaN
StringToNumber(s) ==
    IF s = "" THEN Num(0)
    ELSE IF \E p \in NumericLiterals : p[1] = s
         THEN Num((CHOOSE p \in NumericLiterals : p[1] = s)[2])
         ELSE NaN

\* Number(v)
JsNumber(v) ==
    CASE v.t = "undefined" -> NaN
      [] v.t = "null" -> Num(0)
      [] v.t = "number" -> Norm(v.n, v.d)
      [] v.t = "nan" -> NaN
      [] v.t = "string" -> StringToNumber(v.s)
      [] v.t = "object" -> NaN

\* ToBoolean(v)
Truthy(v) ==
    CASE v.t = "undefined" -> FALSE
      [] v.t = "null" -> FALSE
      [] v.t = "number" -> v.n # 0
      [] v.t = "nan" -> FALSE
      [] v.t = "string" -> v.s # ""
      [] v.t = "object" -> TRUE

\* a || b
JsOr(a, b) == IF Truthy(a) THEN a ELSE b

\* a ?? b
JsNullish(a, b) == IF a.t \in {"undefined", "null"} THEN b ELSE a

\* a * b on numbers
JsMul(a, b) ==
    IF IsNum(a) /\ IsNum(b) THEN Norm(a.n * b.n, a.d + b.d) ELSE NaN

\* a + b on numbers
JsAdd(a, b) ==
    IF IsNum(a) /\ IsNum(b)
    THEN LET d == IF a.d > b.d THEN a.d ELSE b.d
         IN  Norm(a.n * Pow100(d - a.d) + b.n * Pow100(d - b.d), d)
    ELSE NaN

\* a / 100 on numbers
JsDiv100(a) == IF IsNum(a) THEN Norm(a.n, a.d + 1) ELSE NaN

\* a >= 0
JsGe0(a) == IsNum(a) /\ a.n >= 0

-----------------------------------------------------------------------------
(* The model's response text.  A text is a sequence of tokens:             *)
(*   "F"  a fence, three backticks          "j"  the word json             *)
(*   "w"  a whitespace character                                           *)
(*   "o"  the JSON text of the response object up to and including the     *)
(*        opening quote of its last member, "summary"                      *)
(*   "c"  the closing quote and brace of that object                       *)
(* so that <<"o", "c">> is JSON.stringify of the payload with an empty     *)
(* summary and <<"o", "F", "c">> the same object whose summary holds       *)
(* three backticks.                                                        *)

Tokens == {"F", "j", "w", "o", "c"}
StringChars == {"F", "j", "w"}

RECURSIVE TrimStart(_)
TrimStart(t) == IF t # <<>> /\ Head(t) = "w" THEN TrimStart(Tail(t)) ELSE t

RECURSIVE TrimEnd(_)
TrimEnd(t) ==
    IF t # <<>> /\ t[Len(t)] = "w" THEN TrimEnd(SubSeq(t, 1, Len(t) - 1)) ELSE t

\* String.prototype.trim
Trim(t) == TrimEnd(TrimStart(t))

Min(S) == CHOOSE x \in S : \A y \in S : x <= y

\* jsonText.match(/```(json)?\s*([\s\S]*?)\s*```/): <<>> for null, else
\* <<group 2>>.  The match starts at the first fence that has a fence after
\* it; (json)? and the first \s* are greedy, group 2 is lazy and so ends
\* before the whitespace that precedes the next fence.
FenceMatch(t) ==
    LET fences == {i \in 1..Len(t) : t[i] = "F"}
    IN  IF Cardinality(fences) < 2 THEN <<>>
        ELSE LET open == Min(fences)
                 close == Min(fences \ {open})
                 afterTag == IF t[open + 1] = "j" THEN open + 2 ELSE open + 1
                 start == Min({i \in afterTag..close : t[i] # "w"})
                 body == SubSeq(t, start, close - 1)
             IN  << TrimEnd(body) >>

\* lines 111-115: the candidate text handed to JSON.parse
CandidateText(text) ==
    LET jsonText == Trim(text)
        jsonMatch == FenceMatch(jsonText)
    IN  IF jsonMatch # <<>> /\ jsonMatch[1] # <<>> THEN jsonMatch[1] ELSE jsonText

\* JSON.parse(text) for a response whose object is `payload`: <<>> for a
\* SyntaxError, else <<the parsed value>>.  Whitespace around the value is
\* allowed; the value is the object, its summary any string without quotes.
JsonParse(text, payload) ==
    LET t == Trim(text)
    IN  IF /\ Len(t) >= 2
           /\ t[1] = "o"
           /\ t[Len(t)] = "c"
           /\ \A i \in 2..(Len(t) - 1) : t[i] \in StringChars
        THEN << [payload EXCEPT !.summary = SubSeq(t, 2, Len(t) - 1)] >>
        ELSE <<>>

-----------------------------------------------------------------------------
(* generateQuote *)

MalformedResponse == "A resposta da IA não estava em um formato JSON válido."
UnexpectedShape == "A resposta da IA não corresponde ao formato esperado."

\* a value of a step's suggestedPrice member: a scalar, or an object with
\* its unitPrice and unit members (Undef where the member is absent)
PriceValue(v, unitPrice, unit) ==
    [t |-> v.t, n |-> v.n, d |-> v.d, s |-> v.s,
     unitPrice |-> unitPrice, unit |-> unit]

\* sp?.unitPrice and sp?.unit
OptUnitPrice(sp) == IF sp.t = "object" THEN sp.unitPrice ELSE Undef
OptUnit(sp) == IF sp.t = "object" THEN sp.unit ELSE Undef

\* what generateQuote gives back: a quote fragment, or an Error's message
Return(q) == [error |-> "", kind |-> "return", quote |-> <<q>>]
Throw(msg) == [error |-> msg, kind |-> "throw", quote |-> <<>>]
NoOutcome == [error |-> "", kind |-> "none", quote |-> <<>>]

\* lastEdit before any edit
NoEdit == [handler |-> "none", index |-> 0, value |-> "", before |-> Undef]

\* a faulty variant of NormalizeStep that leaves userPrice at 0; C1 must
\* not hold of it
NormalizeStepZeroUserPrice(step) ==
    LET unitPrice ==
            JsNullish(JsNullish(OptUnitPrice(step.suggestedPrice),
                                step.suggestedPrice), Num(0))
    IN  [title |-> step.title,
         description |-> step.description,
         suggestedPrice |-> JsNumber(unitPrice),
         suggestedUnit |-> OptUnit(step.suggestedPrice),
         quantity |-> JsNumber(JsNullish(step.suggestedQuantity, Num(1))),
         userPrice |-> Num(0),
         taxRate |-> Num(0)]

\* lines 121-132: one step of the response as a QuoteStep
NormalizeStep(step) ==
    LET unitPrice ==
            JsNullish(JsNullish(OptUnitPrice(step.suggestedPrice),
                                step.suggestedPrice), Num(0))
        unit == OptUnit(step.suggestedPrice)
        quantity == JsNullish(step.suggestedQuantity, Num(1))
    IN  [title |-> step.title,
         description |-> step.description,
         suggestedPrice |-> JsNumber(unitPrice),
         suggestedUnit |-> unit,
         quantity |-> JsNumber(quantity),
         userPrice |-> JsNumber(unitPrice),
         taxRate |-> Num(0)]

\* lines 119-145: the body of the try block once JSON.parse has returned.
\* Reading a member of a null step is a TypeError.
BuildQuote(parsedJson, currency, city) ==
    IF Truthy(parsedJson.title) /\ parsedJson.steps.t = "array"
    THEN IF \E i \in 1..Len(parsedJson.steps.items) :
                parsedJson.steps.items[i].t = "null"
         THEN Throw("TypeError")
         ELSE Return([title |-> parsedJson.title,
                      summary |-> parsedJson.summary,
                      executionTime |->
                          JsOr(parsedJson.executionTime, Str("A definir")),
                      paymentTerms |->
                          JsOr(parsedJson.paymentTerms, Str("A combinar")),
                      steps |-> [i \in 1..Len(parsedJson.steps.items) |->
                                    NormalizeStep(parsedJson.steps.items[i])],
                      currency |-> currency,
                      city |-> city])
    ELSE Throw(UnexpectedShape)

\* lines 110-145: the try block.  response.text.trim() is a TypeError when
\* the response has no text, JSON.parse throws a SyntaxError.
TryBlock(response, currency, city) ==
    IF ~response.hasText THEN Throw("TypeError")
    ELSE LET parsed == JsonParse(CandidateText(response.text), response.payload)
         IN  IF parsed = <<>> THEN Throw("SyntaxError")
             ELSE BuildQuote(parsed[1], currency, city)

\* a faulty variant of CatchBlock that rethrows what it caught; C7 must not
\* hold of it
CatchBlockRethrow(thrown) == thrown

\* lines 146-149: whatever the try block throws is caught and replaced
CatchBlock(thrown) == Throw(MalformedResponse)

\* lines 110-149: generateQuote from the model's response on
GenerateQuoteParse(response, currency, city) ==
    LET tried == TryBlock(response, currency, city)
    IN  IF tried.kind = "throw" THEN CatchBlock(tried) ELSE tried

-----------------------------------------------------------------------------
(* The responses the model is taken to give *)

StepName(i) == Str(<<"S1", "S2", "S3", "S4">>[i])

\* the shapes of a step's suggestedPrice: absent, null, a number, strings,
\* and an object with or without unitPrice and unit
PriceShapes ==
    { PriceValue(Undef, Undef, Undef),
      PriceValue(Null, Undef, Undef),
      PriceValue(Num(50), Undef, Undef),
      PriceValue(Str("30"), Undef, Undef),
      PriceValue(Str("abc"), Undef, Undef),
      PriceValue(Obj, Num(30), Str("m2")),
      PriceValue(Obj, Num(30), Undef),
      PriceValue(Obj, Undef, Str("m2")),
      PriceValue(Obj, Null, Undef),
      PriceValue(Obj, Str("abc"), Str("m2")) }

QuantityShapes == { Undef, Null, Num(2), Num(-1), Str("abc") }

NullStep ==
    [t |-> "null", title |-> Undef, description |-> Undef,
     suggestedQuantity |-> Undef, suggestedPrice |-> PriceValue(Undef, Undef, Undef)]

StepShapes ==
    { [t |-> "object", title |-> Undef, description |-> Str("desc"),
       suggestedQuantity |-> q, suggestedPrice |-> sp] :
          q \in QuantityShapes, sp \in PriceShapes } \cup { NullStep }

\* the i-th step carries the i-th title
Titled(items) ==
    [i \in 1..Len(items) |->
        IF items[i].t = "null" THEN items[i]
        ELSE [items[i] EXCEPT !.title = StepName(i)]]

\* the lists of n steps
StepLists(n) == { Titled(f) : f \in [1..n -> StepShapes] }

Payload(title, executionTime, steps) ==
    [title |-> title, summary |-> <<>>, executionTime |-> executionTime,
     paymentTerms |-> Undef, steps |-> steps]

ArrayOf(items) == [t |-> "array", items |-> items]
NotArray(t) == [t |-> t, items |-> <<>>]

GoodStep ==
    [t |-> "object", title |-> Str("S1"), description |-> Str("desc"),
     suggestedQuantity |-> Num(3), suggestedPrice |-> PriceValue(Obj, Num(30), Str("m2"))]

\* a well-formed quote, used where the text is what varies
GoodPayload == Payload(Str("T"), Str("3 dias"), ArrayOf(<<GoodStep>>))

\* objects that vary in title, executionTime and the kind of steps
ShapePayloads ==
    { Payload(title, executionTime, steps) :
        title \in {Undef, Str(""), Str("T")},
        executionTime \in {Undef, Str("3 dias")},
        steps \in {NotArray("undefined"), NotArray("object"), ArrayOf(<<>>),
                   ArrayOf(<<GoodStep>>)} }

\* objects that vary in their n steps
StepPayloads(n) ==
    { Payload(Str("T"), Undef, ArrayOf(items)) : items \in StepLists(n) }

Texts == UNION { [1..n -> Tokens] : n \in 0..MaxText }

Response(text, payload) == [text |-> text, payload |-> payload, hasText |-> TRUE]
NoText(payload) == [text |-> <<>>, payload |-> payload, hasText |-> FALSE]

\* responses that vary in their text or in the shape of their object
Responses ==
    { Response(text, payload) :
        text \in Texts, payload \in {GoodPayload, Payload(Undef, Undef, ArrayOf(<<>>))} }
    \cup { Response(text, payload) :
        text \in { <<"o", "c">>, <<"F", "j", "o", "c", "F">> },
        payload \in ShapePayloads }
    \cup { NoText(GoodPayload) }

\* responses that vary in their n steps
StepResponses(n) == { Response(<<"o", "c">>, payload) : payload \in StepPayloads(n) }

\* failures of ai.models.generateContent
UpstreamErrors == { "network", "quota" }

-----------------------------------------------------------------------------
(* App: handleGenerateQuote *)

Currency == "EUR"
City == "Lisboa"
ClientName == Str("Ana")
ClientAddress == Str("Rua 1")
ClientContact == Str("ana@example.org")

TempId(now) == [kind |-> "temp", n |-> now]
SavedId(now) == [kind |-> "saved", n |-> now]

\* lines 346-348: the settings before any are loaded or saved
NoSettings == [companyName |-> ""]

\* localStorage with neither item
EmptyStorage == [savedQuotes |-> <<>>, userSettings |-> <<>>]

\* no invocation of a service function is followed
NoInvocation ==
    [fn |-> "none", pc |-> "idle", images |-> 0, pending |-> {}, read |-> <<>>,
     results |-> <<>>, parts |-> <<>>, calls |-> 0, outcome |-> "none",
     error |-> ""]

\* lines 384-391: the quote handleGenerateQuote builds from the result
NewQuote(result, now) ==
    [title |-> result.title,
     summary |-> result.summary,
     executionTime |-> result.executionTime,
     paymentTerms |-> result.paymentTerms,
     steps |-> result.steps,
     currency |-> result.currency,
     city |-> result.city,
     id |-> TempId(now),
     date |-> now,
     clientName |-> ClientName,
     clientAddress |-> ClientAddress,
     clientContact |-> ClientContact]

\* QuoteResult lines 138-214: no download asked for, no generatePdf pending
NoPdf == [clicks |-> 0, timers |-> <<>>, runs |-> 0, running |-> 0, saved |-> 0]

\* QuoteResult lines 153-164: A4 in millimetres as jsPDF gives it (rounded),
\* the margin, and the gap left under a section (line 200)
PdfHeight == 297
Margin == 10
Gap == 5

\* QuoteResult line 164: generatePdf before its loop, for given sections
NewDoc(sections) ==
    [sections |-> sections, next |-> 1, cursorY |-> Margin, pages |-> 1,
     placed |-> <<>>]

NoDoc == NewDoc(<<>>)

\* a section of the element exported: the height of its image on the page
\* in millimetres (pdfImageHeight, lines 188-192) and whether it carries the
\* class break-before-page
Section(height, breakBefore) == [height |-> height, breakBefore |-> breakBefore]

\* one pass of the loop, had the overflow check of lines 194-197 been left out
PlaceWithoutOverflowCheck(d, section) ==
    LET broken == IF section.breakBefore
                  THEN [d EXCEPT !.pages = @ + 1, !.cursorY = Margin]
                  ELSE d
    IN  [broken EXCEPT
            !.placed = Append(@, [index |-> d.next, page |-> broken.pages,
                                  y |-> broken.cursorY, height |-> section.height]),
            !.cursorY = @ + section.height + Gap,
            !.next = @ + 1]

\* lines 171-201: one pass of the loop of generatePdf, for the next section
Place(d, section) ==
    LET broken == IF section.breakBefore
                  THEN [d EXCEPT !.pages = @ + 1, !.cursorY = Margin]
                  ELSE d
        paged == IF broken.cursorY + section.height > PdfHeight - Margin
                 THEN [broken EXCEPT !.pages = @ + 1, !.cursorY = Margin]
                 ELSE broken
    IN  [paged EXCEPT
            !.placed = Append(@, [index |-> d.next, page |-> paged.pages,
                                  y |-> paged.cursorY, height |-> section.height]),
            !.cursorY = @ + section.height + Gap,
            !.next = @ + 1]

\* geminiService lines 6-28: the environment the module is loaded in, a
\* variable that is not set reading as undefined
Env(apiKey, viteApiKey) == [API_KEY |-> apiKey, VITE_API_KEY |-> viteApiKey]

\* geminiService lines 6-28
GetApiKey(env) ==
    IF Truthy(env.API_KEY) THEN env.API_KEY
    ELSE IF Truthy(env.VITE_API_KEY) THEN env.VITE_API_KEY
    ELSE Undef

\* the module before its top-level statements have run
Unloaded(env) == [env |-> env, status |-> "loading", client |-> <<>>]

\* the module, had the check of the key been left to the first use
LoadedUnchecked(env) ==
    [env |-> env, status |-> "loaded", client |-> << [apiKey |-> GetApiKey(env)] >>]

\* geminiService lines 30-36: the top-level statements of the module
Loaded(env) ==
    LET apiKey == GetApiKey(env)
    IN  IF ~Truthy(apiKey)
        THEN [env |-> env, status |-> "failed", client |-> <<>>]
        ELSE [env |-> env, status |-> "loaded", client |-> << [apiKey |-> apiKey] >>]

\* the module as the running App has it
LoadedService == Loaded(Env(Undef, Str("k2")))

\* JSON.stringify writes NaN as null; a member that is undefined is left
\* out and reads as undefined again
JsonRoundTrip(v) == IF v.t = "nan" THEN Null ELSE v

\* QuoteResult line 54: JSON.parse(JSON.stringify(quote))
DeepCopy(q) ==
    [q EXCEPT
        !.title = JsonRoundTrip(@),
        !.executionTime = JsonRoundTrip(@),
        !.paymentTerms = JsonRoundTrip(@),
        !.steps = [i \in 1..Len(@) |->
                      [f \in DOMAIN @[i] |-> JsonRoundTrip(@[i][f])]]]

\* the first render and its effects are over: events are handled
Ready == startup.pc = "ready"

StartupDone ==
    [pc |-> "ready", queuedQuotes |-> <<>>, queuedSettings |-> <<>>,
     found |-> [savedQuotes |-> <<>>, userSettings |-> <<>>]]

\* QuoteResult lines 55-58: the state of a newly mounted instance
FreshQr ==
    [mounted |-> TRUE, viewMode |-> "quote", reportData |-> <<>>,
     isGeneratingReport |-> FALSE, isPrinting |-> FALSE]

\* no QuoteResult is mounted
NoQr == [FreshQr EXCEPT !.mounted = FALSE]

NoReportCalls == [mounted |-> 0, orphaned |-> 0, last |-> <<>>]

\* the report calls in flight once the instance that issued them is gone
Orphaned(calls) ==
    [mounted |-> 0, orphaned |-> calls.orphaned + calls.mounted, last |-> <<>>]

\* App lines 456-468 with QuoteResult lines 54-58: a QuoteResult instance is
\* mounted on quote (key = quote.id), replacing the one mounted, if any
Mount(quote) ==
    /\ editedQuote' = << DeepCopy(quote) >>
    /\ qr' = FreshQr
    /\ reportCalls' = Orphaned(reportCalls)
    /\ lastEdit' = NoEdit
    /\ pdf' = NoPdf

\* App lines 452-477: the page rendered holds no QuoteResult
Unmount ==
    /\ editedQuote' = <<>>
    /\ qr' = NoQr
    /\ reportCalls' = Orphaned(reportCalls)
    /\ lastEdit' = NoEdit
    /\ pdf' = NoPdf

\* lines 378-382: the form is submitted with a number of images;
\* generateQuote issues the model call
HandleGenerateQuote(images) ==
    /\ Ready
    /\ page = "form"
    /\ gqInFlight < MaxCalls
    /\ nextId + gqInFlight < MaxClock
    /\ page' = "loading"
    /\ error' = <<>>
    /\ currentImages' = images
    /\ gqInFlight' = gqInFlight + 1
    /\ gqPc' = "awaitModel"
    /\ gqCall' = <<>>
    /\ gqOutcome' = NoOutcome
    /\ UNCHANGED <<currentQuote, savedQuotes, nextId, editedQuote, lastEdit,
                   qr, reportCalls, inv, pdf,
                   doc, service>>
    /\ UNCHANGED storeVars

\* what follows the await, had a failure also dropped the current quote
AfterGenerateQuoteDropsQuote(outcome) ==
    IF outcome.kind = "return"
    THEN /\ currentQuote' = << NewQuote(outcome.quote[1], nextId) >>
         /\ nextId' = nextId + 1
         /\ page' = "result"
         /\ Mount(NewQuote(outcome.quote[1], nextId))
         /\ UNCHANGED error
    ELSE /\ error' = << "Falha ao gerar o orçamento: ", outcome.error >>
         /\ page' = "form"
         /\ Unmount
         /\ currentQuote' = <<>>
         /\ UNCHANGED nextId

\* lines 383-399: what follows the await, for an outcome of generateQuote;
\* with page "result" QuoteResult mounts on the new quote (line 54)
AfterGenerateQuote(outcome) ==
    IF outcome.kind = "return"
    THEN /\ currentQuote' = << NewQuote(outcome.quote[1], nextId) >>
         /\ nextId' = nextId + 1
         /\ page' = "result"
         /\ Mount(NewQuote(outcome.quote[1], nextId))
         /\ UNCHANGED error
    ELSE /\ error' = << "Falha ao gerar o orçamento: ", outcome.error >>
         /\ page' = "form"
         /\ Unmount
         /\ UNCHANGED <<currentQuote, nextId>>

\* the model call as it settles: fulfilled with a response, or rejected
Fulfilled(response) == [response |-> response, ok |-> TRUE, reason |-> ""]
Rejected(reason) == [response |-> NoText(GoodPayload), ok |-> FALSE, reason |-> reason]

\* geminiService lines 101-149: generateQuote from the settled model call.
\* The await of line 101 stands outside the try block.
GenerateQuote(call, currency, city) ==
    IF call.ok THEN GenerateQuoteParse(call.response, currency, city)
    ELSE Throw(call.reason)

\* the model call has settled: generateQuote finishes and handleGenerateQuote
\* goes on after its await
ModelCallSettles(call) ==
    /\ gqInFlight > 0
    /\ gqInFlight' = gqInFlight - 1
    /\ LET outcome == GenerateQuote(call, Currency, City)
       IN  /\ gqCall' = <<call>>
           /\ gqOutcome' = outcome
           /\ gqPc' = IF outcome.kind = "return" THEN "returned" ELSE "threw"
           /\ AfterGenerateQuote(outcome)
    /\ UNCHANGED <<savedQuotes, currentImages, inv, doc,
                   service>>
    /\ UNCHANGED storeVars

ModelCallRejects == \E e \in UpstreamErrors : ModelCallSettles(Rejected(e))

ModelCallResolves ==
    /\ gqInFlight > 0
    /\ \/ \E response \in Responses : ModelCallSettles(Fulfilled(response))
       \/ \E n \in 0..MaxSteps : \E response \in StepResponses(n) :
             ModelCallSettles(Fulfilled(response))

\* the App started on an empty storage, no quote generated yet
AppAtRest ==
    /\ page = "form"
    /\ error = <<>>
    /\ currentQuote = <<>>
    /\ savedQuotes = <<>>
    /\ nextId = 0
    /\ gqPc = "idle"
    /\ gqCall = <<>>
    /\ gqOutcome = NoOutcome
    /\ editedQuote = <<>>
    /\ lastEdit = NoEdit
    /\ gqInFlight = 0
    /\ currentImages = 0
    /\ userSettings = NoSettings
    /\ storage = EmptyStorage
    /\ startup = StartupDone
    /\ qr = NoQr
    /\ reportCalls = NoReportCalls
    /\ inv = NoInvocation
    /\ pdf = NoPdf

InitGen == AppAtRest /\ doc = NoDoc /\ service = LoadedService

NextGen == HandleGenerateQuote(0) \/ ModelCallRejects \/ ModelCallResolves

SpecGen == InitGen /\ [][NextGen]_vars

-----------------------------------------------------------------------------
(* QuoteResult: the edit handlers *)

\* the strings the change events carry
PriceInputs == { "30", "abc", "" }
QuantityInputs == { "3", "-1", "abc", "" }
TaxInputs == { "23", "abc", "" }

WithStepField(quote, index, field, v) ==
    [quote EXCEPT !.steps[index] = [@ EXCEPT ![field] = v]]

\* a faulty variant of PriceChanged that stores 0 for a value that is not a
\* number; the amended C10 must not hold of it
PriceChangedCoerce(quote, index, value) ==
    LET newPrice == StringToNumber(value)
    IN  WithStepField(quote, index, "userPrice",
                      IF IsNaN(newPrice) THEN Num(0) ELSE newPrice)

\* lines 77-84: editedQuote after handlePriceChange(index, value)
PriceChanged(quote, index, value) ==
    LET newPrice == StringToNumber(value)
    IN  IF ~IsNaN(newPrice)
        THEN WithStepField(quote, index, "userPrice", newPrice)
        ELSE quote

\* lines 86-93: editedQuote after handleQuantityChange(index, value)
QuantityChanged(quote, index, value) ==
    LET newQuantity == StringToNumber(value)
    IN  IF ~IsNaN(newQuantity) /\ JsGe0(newQuantity)
        THEN WithStepField(quote, index, "quantity", newQuantity)
        ELSE quote

\* lines 95-102: editedQuote after handleTaxChange(index, value)
TaxChanged(quote, index, value) ==
    LET newTaxRate == StringToNumber(value)
    IN  IF ~IsNaN(newTaxRate)
        THEN WithStepField(quote, index, "taxRate", newTaxRate)
        ELSE quote

Mounted == editedQuote # <<>> /\ page \in {"result", "view"}

\* lines 245-255 and 272-353 with 437-441: the inputs of the quote are
\* rendered in the quote view, and are static while a PDF is made
Editable == Mounted /\ qr.viewMode = "quote" /\ ~qr.isPrinting

EditFrame == UNCHANGED <<page, error, currentQuote, savedQuotes, nextId,
                         gqPc, gqCall, gqOutcome, gqInFlight, currentImages,
                         userSettings, storage, startup, qr, reportCalls, inv, pdf,
                   doc, service>>

HandlePriceChange(index, value) ==
    /\ Editable
    /\ index \in 1..Len(editedQuote[1].steps)
    /\ editedQuote' = << PriceChanged(editedQuote[1], index, value) >>
    /\ lastEdit' = [handler |-> "price", index |-> index, value |-> value,
                    before |-> editedQuote[1].steps[index].userPrice]
    /\ EditFrame

HandleQuantityChange(index, value) ==
    /\ Editable
    /\ index \in 1..Len(editedQuote[1].steps)
    /\ editedQuote' = << QuantityChanged(editedQuote[1], index, value) >>
    /\ lastEdit' = [handler |-> "quantity", index |-> index, value |-> value,
                    before |-> editedQuote[1].steps[index].quantity]
    /\ EditFrame

HandleTaxChange(index, value) ==
    /\ Editable
    /\ index \in 1..Len(editedQuote[1].steps)
    /\ editedQuote' = << TaxChanged(editedQuote[1], index, value) >>
    /\ lastEdit' = [handler |-> "tax", index |-> index, value |-> value,
                    before |-> editedQuote[1].steps[index].taxRate]
    /\ EditFrame

-----------------------------------------------------------------------------
(* QuoteResult: the totals *)

\* a faulty variant of TotalsField without the default; C4 must not hold of
\* it
TotalsFieldNoDefault(x) == JsNumber(x)

\* lines 218-219: Number(x || 0)
TotalsField(x) == JsNumber(JsOr(x, Num(0)))

\* lines 267-268: Number(x) || 0
LineField(x) == JsOr(JsNumber(x), Num(0))

\* line 218: the term of one step in the subtotal sum
SubtotalTerm(step) ==
    JsMul(TotalsField(step.userPrice), TotalsField(step.quantity))

\* a faulty variant of TaxTerm that takes taxRate as a fraction; C2 must not
\* hold of it
TaxTermNoPercent(step) ==
    JsMul(JsMul(TotalsField(step.userPrice), TotalsField(step.quantity)),
          TotalsField(step.taxRate))

\* line 219: the term of one step in the tax sum
TaxTerm(step) ==
    JsMul(JsMul(TotalsField(step.userPrice), TotalsField(step.quantity)),
          JsDiv100(TotalsField(step.taxRate)))

RECURSIVE ReduceSubtotal(_, _)
\* line 218: steps.reduce((acc, step) => acc + ..., acc)
ReduceSubtotal(steps, acc) ==
    IF steps = <<>> THEN acc
    ELSE ReduceSubtotal(Tail(steps), JsAdd(acc, SubtotalTerm(Head(steps))))

RECURSIVE ReduceTax(_, _)
\* line 219: steps.reduce((acc, step) => acc + ..., acc)
ReduceTax(steps, acc) ==
    IF steps = <<>> THEN acc
    ELSE ReduceTax(Tail(steps), JsAdd(acc, TaxTerm(Head(steps))))

\* line 218
Subtotal(steps) == ReduceSubtotal(steps, Num(0))

\* line 219
TotalTax(steps) == ReduceTax(steps, Num(0))

\* line 223
GrandTotal(sub, tax) == JsAdd(sub, tax)

\* lines 217-225: what the useMemo returns
Totals(steps) ==
    LET sub == Subtotal(steps)
        tax == TotalTax(steps)
    IN  [subtotal |-> sub, totalTax |-> tax, grandTotal |-> GrandTotal(sub, tax)]

\* line 267
LineTotal(step) == JsMul(LineField(step.userPrice), LineField(step.quantity))

\* a faulty variant of LineTotalWithTax that gives the tax alone; C3 must
\* not hold of it
LineTotalTaxOnly(step) ==
    JsMul(LineTotal(step), JsDiv100(LineField(step.taxRate)))

\* line 268
LineTotalWithTax(step) ==
    JsMul(LineTotal(step), JsAdd(Num(1), JsDiv100(LineField(step.taxRate))))

-----------------------------------------------------------------------------
(* App: navigation between the pages *)

\* lines 402-407
HandleReset ==
    /\ Ready
    /\ page \notin {"form", "loading"}
    /\ page' = "form"
    /\ currentQuote' = <<>>
    /\ currentImages' = 0
    /\ error' = <<>>
    /\ Unmount
    /\ UNCHANGED <<savedQuotes, nextId, gqPc, gqCall, gqOutcome, gqInFlight, inv, doc,
                   service>>
    /\ UNCHANGED storeVars

\* line 494: the history button of the header
ShowHistory ==
    /\ Ready
    /\ page # "history"
    /\ page' = "history"
    /\ Unmount
    /\ UNCHANGED <<error, currentQuote, savedQuotes, nextId, gqPc, gqCall,
                   gqOutcome, gqInFlight, currentImages, inv, doc,
                   service>>
    /\ UNCHANGED storeVars

\* lines 443-450, from an entry of the history list; with page "view"
\* QuoteResult mounts on the saved quote (line 54)
HandleViewQuote(id) ==
    /\ Ready
    /\ page = "history"
    /\ \E i \in 1..Len(savedQuotes) : savedQuotes[i].id = id
    /\ LET quoteToView ==
               savedQuotes[Min({i \in 1..Len(savedQuotes) : savedQuotes[i].id = id})]
       IN  /\ currentQuote' = <<quoteToView>>
           /\ Mount(quoteToView)
    /\ currentImages' = 0
    /\ page' = "view"
    /\ UNCHANGED <<error, savedQuotes, nextId, gqPc, gqCall, gqOutcome,
                   gqInFlight, inv, doc,
                   service>>
    /\ UNCHANGED storeVars

\* QuoteHistory lines 52-54: Number(x) || 0, and Number(x) || 1 for the
\* quantity
HistoryField(x, default) == JsOr(JsNumber(x), default)

\* QuoteHistory line 55: the term of one step in the total of the list
HistoryTerm(step) ==
    JsMul(JsMul(HistoryField(step.userPrice, Num(0)),
                HistoryField(step.quantity, Num(1))),
          JsAdd(Num(1), JsDiv100(HistoryField(step.taxRate, Num(0)))))

RECURSIVE ReduceHistory(_, _)
\* QuoteHistory lines 51-56: quote.steps.reduce((acc, step) => ..., acc)
ReduceHistory(steps, acc) ==
    IF steps = <<>> THEN acc
    ELSE ReduceHistory(Tail(steps), JsAdd(acc, HistoryTerm(Head(steps))))

\* QuoteHistory lines 51-57: totalPrice of a quote of the list
HistoryTotal(steps) == ReduceHistory(steps, Num(0))

-----------------------------------------------------------------------------
(* The quotes found in storage at startup.  A numeric member of a stored    *)
(* step is a number, null (JSON.stringify writes NaN as null; userPrice and *)
(* quantity can be NaN, taxRate cannot) or absent (quotes saved before the  *)
(* member existed).                                                         *)

StoredPrices == { Num(30), Num(50), Null, Undef }
StoredQuantities == { Num(1), Num(3), Null, Undef }
StoredTaxRates == { Num(0), Num(10), Undef }

StoredSteps ==
    { [title |-> Str("S"), description |-> Str("desc"),
       suggestedPrice |-> Num(30), suggestedUnit |-> Undef,
       quantity |-> q, userPrice |-> p, taxRate |-> t] :
          p \in StoredPrices, q \in StoredQuantities, t \in StoredTaxRates }

\* the lists of n stored steps
StoredStepLists(n) == [1..n -> StoredSteps]

StoredQuote(steps) ==
    [title |-> Str("T"), summary |-> <<>>, executionTime |-> Str("A definir"),
     paymentTerms |-> Str("A combinar"), steps |-> steps,
     currency |-> Currency, city |-> City,
     id |-> SavedId(0), date |-> 0,
     clientName |-> ClientName, clientAddress |-> ClientAddress,
     clientContact |-> ClientContact]

\* the App after startup on a storage that holds quotes and no settings
Started(quotes) ==
    /\ page = "form"
    /\ error = <<>>
    /\ currentQuote = <<>>
    /\ savedQuotes = quotes
    /\ nextId = 1
    /\ gqPc = "idle"
    /\ gqCall = <<>>
    /\ gqOutcome = NoOutcome
    /\ editedQuote = <<>>
    /\ lastEdit = NoEdit
    /\ gqInFlight = 0
    /\ currentImages = 0
    /\ userSettings = NoSettings
    /\ storage = [savedQuotes |-> << quotes >>, userSettings |-> << NoSettings >>]
    /\ startup = StartupDone
    /\ qr = NoQr
    /\ reportCalls = NoReportCalls
    /\ inv = NoInvocation
    /\ pdf = NoPdf
    /\ doc = NoDoc
    /\ service = LoadedService

\* the App after its first render and the load of lines 350-359
InitTotals ==
    \E n \in 0..MaxSteps : \E steps \in StoredStepLists(n) :
        Started(<< StoredQuote(steps) >>)

NextTotals ==
    \/ ShowHistory
    \/ \E i \in 1..Len(savedQuotes) : HandleViewQuote(savedQuotes[i].id)
    \/ HandleReset

SpecTotals == InitTotals /\ [][NextTotals]_vars

-----------------------------------------------------------------------------
(* The editor on a generated quote *)

\* the steps of the quotes that are edited
EditSteps == { GoodStep }

EditResponses(n) ==
    { Response(<<"o", "c">>, Payload(Str("T"), Undef, ArrayOf(Titled(items)))) :
        items \in [1..n -> EditSteps] }

ModelCallResolvesForEdit ==
    /\ gqInFlight > 0
    /\ \E n \in 0..MaxSteps : \E response \in EditResponses(n) :
          ModelCallSettles(Fulfilled(response))

Init == InitGen

Next ==
    \/ HandleGenerateQuote(0)
    \/ ModelCallResolvesForEdit
    \/ ModelCallRejects
    \/ \E i \in 1..MaxSteps, v \in PriceInputs : HandlePriceChange(i, v)
    \/ \E i \in 1..MaxSteps, v \in QuantityInputs : HandleQuantityChange(i, v)
    \/ \E i \in 1..MaxSteps, v \in TaxInputs : HandleTaxChange(i, v)

Spec == Init /\ [][Next]_vars

-----------------------------------------------------------------------------
(* QuoteResult: the text edits, the report, the PDF and the save button *)

TitleInputs == { "Pintura" }
DescriptionInputs == { "Duas demãos" }
ClientFields == { "clientName", "executionTime" }
ClientInputs == { "Bruno" }

\* the state the handlers of QuoteResult do not touch
QuoteResultFrame ==
    UNCHANGED <<page, error, currentQuote, savedQuotes, nextId, gqPc, gqCall,
                gqOutcome, gqInFlight, currentImages, userSettings, storage,
                startup, inv, doc,
                   service>>

\* lines 104-108
HandleDescriptionChange(index, value) ==
    /\ Editable
    /\ index \in 1..Len(editedQuote[1].steps)
    /\ editedQuote' = << WithStepField(editedQuote[1], index, "description", Str(value)) >>
    /\ UNCHANGED <<lastEdit, qr, reportCalls, pdf>>
    /\ QuoteResultFrame

\* the title edit, had the editor worked on the quote of the App itself
HandleTitleChangeInPlace(index, value) ==
    /\ Editable
    /\ index \in 1..Len(editedQuote[1].steps)
    /\ editedQuote' = << WithStepField(editedQuote[1], index, "title", Str(value)) >>
    /\ currentQuote' = << WithStepField(currentQuote[1], index, "title", Str(value)) >>
    /\ UNCHANGED <<lastEdit, qr, reportCalls, pdf>>
    /\ UNCHANGED <<page, error, savedQuotes, nextId, gqPc, gqCall, gqOutcome,
                   gqInFlight, currentImages, userSettings, storage, startup,
                   inv, doc, service>>

\* lines 110-114
HandleTitleChange(index, value) ==
    /\ Editable
    /\ index \in 1..Len(editedQuote[1].steps)
    /\ editedQuote' = << WithStepField(editedQuote[1], index, "title", Str(value)) >>
    /\ UNCHANGED <<lastEdit, qr, reportCalls, pdf>>
    /\ QuoteResultFrame

\* lines 116-118, called with the fields of lines 251-253, 390 and 400
HandleClientDataChange(field, value) ==
    /\ Editable
    /\ editedQuote' = << [editedQuote[1] EXCEPT ![field] = Str(value)] >>
    /\ UNCHANGED <<lastEdit, qr, reportCalls, pdf>>
    /\ QuoteResultFrame

\* lines 142-213: the effect runs after a render in which isPrinting is
\* true and one of its dependencies changed, and sets a timer for a
\* generatePdf that keeps the viewMode of that render
EffectSchedules(jobs, view) == [jobs EXCEPT !.timers = Append(@, view)]

\* the timers set so far by the mounted instance
TimersSet == pdf.runs + Len(pdf.timers)

\* the effect of lines 142-214 after a render with a new viewMode or
\* reportData
EffectAfterRender(printing, view) ==
    /\ printing => TimersSet < MaxTimers
    /\ pdf' = IF printing THEN EffectSchedules(pdf, view) ELSE pdf

\* lines 420-424: the quote view is chosen in the toggle bar
ShowQuoteView ==
    /\ Ready /\ Mounted
    /\ qr.viewMode # "quote"
    /\ qr' = [qr EXCEPT !.viewMode = "quote"]
    /\ EffectAfterRender(qr.isPrinting, "quote")
    /\ UNCHANGED <<editedQuote, lastEdit, reportCalls>>
    /\ QuoteResultFrame

\* the report button, had it been rendered whatever the images
ReportButtonAlways ==
    /\ Ready /\ Mounted
    /\ ~qr.isGeneratingReport

\* lines 426-434: the report button is rendered and enabled
ReportButton ==
    /\ Ready /\ Mounted
    /\ qr.reportData # <<>> \/ currentImages > 0
    /\ ~qr.isGeneratingReport

\* line 428 with a report at hand: the report view is chosen
ShowReportView ==
    /\ ReportButton
    /\ qr.reportData # <<>>
    /\ qr.viewMode # "report"
    /\ qr' = [qr EXCEPT !.viewMode = "report"]
    /\ EffectAfterRender(qr.isPrinting, "report")
    /\ UNCHANGED <<editedQuote, lastEdit, reportCalls>>
    /\ QuoteResultFrame

\* line 428 without a report, lines 124-127: generateTechnicalReport is
\* called and issues its model call
HandleGenerateReport ==
    /\ ReportButton
    /\ qr.reportData = <<>>
    /\ reportCalls.mounted + reportCalls.orphaned < MaxCalls
    /\ qr' = [qr EXCEPT !.isGeneratingReport = TRUE]
    /\ reportCalls' = [reportCalls EXCEPT !.mounted = @ + 1, !.last = <<>>]
    /\ UNCHANGED <<editedQuote, lastEdit, pdf>>
    /\ QuoteResultFrame

\* the report the model is asked for
TheReport == [title |-> "LAUDO TÉCNICO", technician |-> "", summary |-> <<>>]

\* an object with none of the members of a report
LooseObject == [summary |-> <<>>]

ReportFailure == "Não foi possível gerar o relatório técnico. Tente novamente."

\* geminiService lines 238-241
ReportTryBlock(response) ==
    IF ~response.hasText THEN Throw("TypeError")
    ELSE LET parsed == JsonParse(Trim(response.text), response.payload)
         IN  IF parsed = <<>> THEN Throw("SyntaxError") ELSE Return(parsed[1])

\* the catch block, had it let through what it caught
ReportCatchBlockRethrow(thrown) == thrown

\* geminiService lines 242-245
ReportCatchBlock(thrown) == Throw(ReportFailure)

\* geminiService lines 229-245: generateTechnicalReport from the settled
\* model call on; the await of line 229 stands outside the try block
GenerateTechnicalReport(call) ==
    IF ~call.ok THEN Throw(call.reason)
    ELSE LET tried == ReportTryBlock(call.response)
         IN  IF tried.kind = "throw" THEN ReportCatchBlock(tried) ELSE tried

\* the ways the model call of a report settles: the report, with space
\* around it; an object that is no report; the report in a fence; a
\* response without text; a failure of the call
ReportCalls ==
    { Fulfilled(Response(<<"w", "o", "c", "w">>, TheReport)),
      Fulfilled(Response(<<"o", "c">>, LooseObject)),
      Fulfilled(Response(<<"F", "j", "o", "c", "F">>, TheReport)),
      Fulfilled(NoText(TheReport)),
      Rejected("network") }

\* lines 127-135: generateTechnicalReport has returned or thrown, in the
\* instance that is mounted; the three state updates that follow the await
\* make one render
ReportSettles(call) ==
    /\ reportCalls.mounted > 0
    /\ LET outcome == GenerateTechnicalReport(call)
       IN  /\ reportCalls' = [reportCalls EXCEPT
                                 !.mounted = @ - 1,
                                 !.last = << [call |-> call, outcome |-> outcome] >>]
           /\ IF outcome.kind = "return"
              THEN /\ qr' = [qr EXCEPT !.reportData = << outcome.quote[1] >>,
                                       !.viewMode = "report",
                                       !.isGeneratingReport = FALSE]
                   /\ EffectAfterRender(qr.isPrinting, "report")
              ELSE /\ qr' = [qr EXCEPT !.isGeneratingReport = FALSE]
                   /\ UNCHANGED pdf
    /\ UNCHANGED <<editedQuote, lastEdit>>
    /\ QuoteResultFrame

\* lines 127-135 in an instance that is no longer mounted: its state
\* updates reach nothing
OrphanedReportSettles ==
    /\ reportCalls.orphaned > 0
    /\ reportCalls' = [reportCalls EXCEPT !.orphaned = @ - 1]
    /\ UNCHANGED <<editedQuote, lastEdit, qr, pdf>>
    /\ QuoteResultFrame

\* line 442: TechnicalReport edits the report through onUpdate
HandleReportUpdate ==
    /\ Ready /\ Mounted
    /\ qr.viewMode = "report" /\ qr.reportData # <<>> /\ ~qr.isPrinting
    /\ "technician" \in DOMAIN qr.reportData[1]
    /\ qr' = [qr EXCEPT !.reportData = << [@[1] EXCEPT !.technician = "Rui"] >>]
    /\ UNCHANGED <<editedQuote, lastEdit, reportCalls, pdf>>
    /\ QuoteResultFrame

\* lines 138-140, from the button of lines 455-459, and the effect of lines
\* 142-213 after the render with isPrinting true
HandleDownloadPdf ==
    /\ Ready /\ Mounted
    /\ ~qr.isPrinting
    /\ TimersSet < MaxTimers
    /\ qr' = [qr EXCEPT !.isPrinting = TRUE]
    /\ pdf' = [EffectSchedules(pdf, qr.viewMode) EXCEPT !.clicks = @ + 1]
    /\ UNCHANGED <<editedQuote, lastEdit, reportCalls>>
    /\ QuoteResultFrame

\* lines 145-146: the element the ref of a generatePdf for view points to,
\* there or not: a view that is not shown has none
TargetPresent(view) ==
    /\ qr.mounted
    /\ qr.viewMode = view
    /\ view = "report" => qr.reportData # <<>>

\* lines 144-151: a timer fires; generatePdf begins, and ends at once where
\* its target element is missing
PdfTimerFires ==
    /\ qr.mounted
    /\ pdf.timers # <<>>
    /\ LET view == Head(pdf.timers)
       IN  IF TargetPresent(view)
           THEN /\ pdf' = [pdf EXCEPT !.timers = Tail(@), !.runs = @ + 1,
                                      !.running = @ + 1]
                /\ UNCHANGED qr
           ELSE /\ pdf' = [pdf EXCEPT !.timers = Tail(@), !.runs = @ + 1]
                /\ qr' = [qr EXCEPT !.isPrinting = FALSE]
    /\ UNCHANGED <<editedQuote, lastEdit, reportCalls>>
    /\ QuoteResultFrame

\* lines 171-209: a generatePdf under way has placed its sections, saves
\* the file and sets isPrinting to false
PdfSaved ==
    /\ qr.mounted
    /\ pdf.running > 0
    /\ pdf' = [pdf EXCEPT !.running = @ - 1, !.saved = @ + 1]
    /\ qr' = [qr EXCEPT !.isPrinting = FALSE]
    /\ UNCHANGED <<editedQuote, lastEdit, reportCalls>>
    /\ QuoteResultFrame

\* line 177: html2canvas rejects; generatePdf, an async function without
\* try or catch, ends there
PdfRasterFails ==
    /\ qr.mounted
    /\ pdf.running > 0
    /\ pdf' = [pdf EXCEPT !.running = @ - 1]
    /\ UNCHANGED <<editedQuote, lastEdit, reportCalls, qr>>
    /\ QuoteResultFrame

\* lines 142-214: a timer has fired and generatePdf has run to its end
\* without failure, in the mounted instance
GeneratePdf ==
    /\ qr.mounted
    /\ pdf.timers # <<>>
    /\ pdf.running = 0
    /\ pdf' = [pdf EXCEPT !.timers = Tail(@), !.runs = @ + 1,
                          !.saved = IF TargetPresent(Head(pdf.timers))
                                    THEN @ + 1 ELSE @]
    /\ qr' = [qr EXCEPT !.isPrinting = FALSE]
    /\ UNCHANGED <<editedQuote, lastEdit, reportCalls>>
    /\ QuoteResultFrame

-----------------------------------------------------------------------------
(* App: saved quotes, settings and their storage *)

\* JSON.stringify and JSON.parse of the saved list
StringifyQuotes(quotes) == [i \in 1..Len(quotes) |-> DeepCopy(quotes[i])]

\* the effect of lines 361-367, had it written nothing
SaveQuotesEffectSkipped(quotes) == storage' = storage

\* lines 361-367: the effect that follows a render with a new savedQuotes
SaveQuotesEffect(quotes) ==
    storage' = [storage EXCEPT !.savedQuotes = << StringifyQuotes(quotes) >>]

\* lines 369-375: the effect that follows a render with new userSettings
SaveSettingsEffect(settings) ==
    storage' = [storage EXCEPT !.userSettings = << settings >>]

\* saving, had the quote been appended under the id it came with
HandleSaveQuoteKeepId(finalQuote) ==
    /\ nextId + gqInFlight < MaxClock
    /\ savedQuotes' = Append(savedQuotes, [finalQuote EXCEPT !.date = nextId])
    /\ nextId' = nextId + 1
    /\ page' = "history"

\* lines 418-426
HandleSaveQuote(finalQuote) ==
    /\ nextId + gqInFlight < MaxClock
    /\ savedQuotes' = Append(savedQuotes,
                             [finalQuote EXCEPT !.id = SavedId(nextId),
                                                !.date = nextId])
    /\ nextId' = nextId + 1
    /\ page' = "history"

\* updating, had the edited quote been put in front of the list
HandleUpdateQuoteInFront(updatedQuote) ==
    /\ savedQuotes' = << updatedQuote >> \o
                          SelectSeq(savedQuotes,
                                    LAMBDA quote : quote.id # updatedQuote.id)
    /\ page' = "history"
    /\ UNCHANGED nextId

\* lines 428-431
HandleUpdateQuote(updatedQuote) ==
    /\ savedQuotes' = [i \in 1..Len(savedQuotes) |->
                          IF savedQuotes[i].id = updatedQuote.id
                          THEN updatedQuote ELSE savedQuotes[i]]
    /\ page' = "history"
    /\ UNCHANGED nextId

\* what the save button would hand over, had it added the report
SavedPayloadWithReport(quote, state) ==
    [f \in DOMAIN quote \cup {"report"} |->
        IF f = "report" THEN state.reportData ELSE quote[f]]

\* QuoteResult line 121: what the save button hands to onSaveOrUpdate
SavedPayload(quote, state) == quote

\* QuoteResult lines 120-122 from the button of lines 460-468, with
\* onSaveOrUpdate of App line 464, and the effect of lines 361-367
HandleSave ==
    /\ Ready
    /\ Editable
    /\ IF page = "result"
       THEN HandleSaveQuote(SavedPayload(editedQuote[1], qr))
       ELSE HandleUpdateQuote(SavedPayload(editedQuote[1], qr))
    /\ SaveQuotesEffect(savedQuotes')
    /\ Unmount
    /\ UNCHANGED <<error, currentQuote, gqPc, gqCall, gqOutcome, gqInFlight,
                   currentImages, userSettings, startup, inv, doc,
                   service>>

\* the deletion, had the answer to the question been ignored
HandleDeleteQuoteUnasked(id, confirmed) ==
    /\ Ready
    /\ page = "history"
    /\ \E i \in 1..Len(savedQuotes) : savedQuotes[i].id = id
    /\ savedQuotes' = SelectSeq(savedQuotes, LAMBDA quote : quote.id # id)
    /\ SaveQuotesEffect(savedQuotes')
    /\ UNCHANGED <<page, error, currentQuote, nextId, gqPc, gqCall, gqOutcome,
                   editedQuote, lastEdit, gqInFlight, currentImages,
                   userSettings, startup, qr, reportCalls, inv, pdf,
                   doc, service>>

\* lines 437-441 from the button of QuoteHistory lines 73-80, confirmed
\* being the answer window.confirm returns, and the effect of lines 361-367
\* that follows a render with a new savedQuotes
HandleDeleteQuote(id, confirmed) ==
    /\ Ready
    /\ page = "history"
    /\ \E i \in 1..Len(savedQuotes) : savedQuotes[i].id = id
    /\ IF confirmed
       THEN /\ savedQuotes' = SelectSeq(savedQuotes, LAMBDA quote : quote.id # id)
            /\ SaveQuotesEffect(savedQuotes')
       ELSE UNCHANGED <<savedQuotes, storage>>
    /\ UNCHANGED <<page, error, currentQuote, nextId, gqPc, gqCall, gqOutcome,
                   editedQuote, lastEdit, gqInFlight, currentImages,
                   userSettings, startup, qr, reportCalls, inv, pdf,
                   doc, service>>

\* line 498: the settings button of the header
ShowSettings ==
    /\ Ready
    /\ page # "settings"
    /\ page' = "settings"
    /\ Unmount
    /\ UNCHANGED <<error, currentQuote, savedQuotes, nextId, gqPc, gqCall,
                   gqOutcome, gqInFlight, currentImages, inv, doc,
                   service>>
    /\ UNCHANGED storeVars

SettingsInputs == { [companyName |-> "HidroClean"] }

\* lines 433-435 from the form of lines 290-295, and the effect of 369-375
HandleSaveSettings(newSettings) ==
    /\ Ready
    /\ page = "settings"
    /\ userSettings' = newSettings
    /\ SaveSettingsEffect(newSettings)
    /\ UNCHANGED <<page, error, currentQuote, savedQuotes, nextId, gqPc,
                   gqCall, gqOutcome, editedQuote, lastEdit, gqInFlight,
                   currentImages, startup, qr, reportCalls, inv, pdf,
                   doc, service>>

\* the state the startup does not touch
StartupFrame ==
    UNCHANGED <<page, error, currentQuote, nextId, gqPc, gqCall, gqOutcome,
                editedQuote, lastEdit, gqInFlight, currentImages, qr,
                reportCalls, inv, pdf,
                   doc, service>>

\* lines 350-359: the first effect reads both items and asks for the state
\* to be set
LoadEffect ==
    /\ startup.pc = "load"
    /\ startup' = [startup EXCEPT !.pc = "saveQuotes",
                                  !.queuedQuotes = storage.savedQuotes,
                                  !.queuedSettings = storage.userSettings]
    /\ UNCHANGED <<savedQuotes, userSettings, storage>>
    /\ StartupFrame

\* lines 361-367 after the first render: savedQuotes is still the initial []
FirstSaveQuotesEffect ==
    /\ startup.pc = "saveQuotes"
    /\ SaveQuotesEffect(savedQuotes)
    /\ startup' = [startup EXCEPT !.pc = "saveSettings"]
    /\ UNCHANGED <<savedQuotes, userSettings>>
    /\ StartupFrame

\* lines 369-375 after the first render
FirstSaveSettingsEffect ==
    /\ startup.pc = "saveSettings"
    /\ SaveSettingsEffect(userSettings)
    /\ startup' = [startup EXCEPT !.pc = "render"]
    /\ UNCHANGED <<savedQuotes, userSettings>>
    /\ StartupFrame

\* the render that applies the state set by the first effect, followed by
\* the effects of lines 361-375 for the state that changed
SecondRender ==
    /\ startup.pc = "render"
    /\ savedQuotes' = IF startup.queuedQuotes # <<>>
                      THEN startup.queuedQuotes[1] ELSE savedQuotes
    /\ userSettings' = IF startup.queuedSettings # <<>>
                       THEN startup.queuedSettings[1] ELSE userSettings
    /\ storage' = [savedQuotes |->
                       IF startup.queuedQuotes # <<>>
                       THEN << StringifyQuotes(savedQuotes') >>
                       ELSE storage.savedQuotes,
                   userSettings |->
                       IF startup.queuedSettings # <<>>
                       THEN << userSettings' >> ELSE storage.userSettings]
    /\ startup' = [startup EXCEPT !.pc = "ready",
                                  !.queuedQuotes = <<>>,
                                  !.queuedSettings = <<>>]
    /\ StartupFrame

-----------------------------------------------------------------------------
(* The App as a whole *)

\* a step of a quote kept in storage
StoredStep ==
    [title |-> Str("S"), description |-> Str("desc"),
     suggestedPrice |-> Num(30), suggestedUnit |-> Str("m2"),
     quantity |-> Num(3), userPrice |-> Num(50), taxRate |-> Num(0)]

\* localStorage as the App finds it: empty, or as an earlier session left it
FoundStorages ==
    { EmptyStorage,
      [savedQuotes |-> << << StoredQuote(<< StoredStep >>) >> >>,
       userSettings |-> << [companyName |-> "ACME"] >>] }

\* a step whose suggestedPrice is an object without unitPrice
UnitOnlyStep ==
    [t |-> "object", title |-> Str("S1"), description |-> Str("desc"),
     suggestedQuantity |-> Num(3),
     suggestedPrice |-> PriceValue(Obj, Undef, Str("m2"))]

\* the responses of the model: a quote, and a quote with a step priced by
\* unit only
AppResponses ==
    { Response(<<"o", "c">>, GoodPayload),
      Response(<<"o", "c">>, Payload(Str("T"), Undef, ArrayOf(<< UnitOnlyStep >>))) }

ModelCallResolvesInApp ==
    /\ gqInFlight > 0
    /\ \E response \in AppResponses : ModelCallSettles(Fulfilled(response))

\* the model answers with a quote
ModelCallResolvesForStore ==
    ModelCallSettles(Fulfilled(Response(<<"o", "c">>, GoodPayload)))

\* the model answers with a text that is not JSON
ModelCallResolvesInvalid ==
    ModelCallSettles(Fulfilled(Response(<<"o">>, GoodPayload)))

\* the model call fails
ModelCallRejectsOnce == ModelCallSettles(Rejected("network"))

\* lines 340-348: the state at the first render, localStorage as found
InitApp ==
    /\ page = "form"
    /\ error = <<>>
    /\ currentQuote = <<>>
    /\ savedQuotes = <<>>
    /\ nextId = 1
    /\ gqPc = "idle"
    /\ gqCall = <<>>
    /\ gqOutcome = NoOutcome
    /\ editedQuote = <<>>
    /\ lastEdit = NoEdit
    /\ gqInFlight = 0
    /\ currentImages = 0
    /\ userSettings = NoSettings
    /\ storage \in FoundStorages
    /\ startup = [pc |-> "load", queuedQuotes |-> <<>>, queuedSettings |-> <<>>,
                  found |-> storage]
    /\ qr = NoQr
    /\ reportCalls = NoReportCalls
    /\ inv = NoInvocation
    /\ pdf = NoPdf
    /\ doc = NoDoc
    /\ service = LoadedService

\* startup, saving, updating and deleting quotes, and the settings
NextStore ==
    \/ LoadEffect
    \/ FirstSaveQuotesEffect
    \/ FirstSaveSettingsEffect
    \/ SecondRender
    \/ HandleGenerateQuote(0)
    \/ ModelCallResolvesForStore
    \/ ModelCallRejectsOnce
    \/ HandleReset
    \/ ShowHistory
    \/ ShowSettings
    \/ \E i \in 1..Len(savedQuotes) : HandleViewQuote(savedQuotes[i].id)
    \/ \E i \in 1..Len(savedQuotes), confirmed \in BOOLEAN :
          HandleDeleteQuote(savedQuotes[i].id, confirmed)
    \/ \E settings \in SettingsInputs : HandleSaveSettings(settings)
    \/ \E v \in TitleInputs : HandleTitleChange(1, v)
    \/ HandleSave

SpecStore == InitApp /\ [][NextStore]_vars

\* the App once started on the storage an earlier session left
InitUi == Started(<< StoredQuote(<< StoredStep >>) >>)

\* generation, navigation, the report and the PDF
NextUi ==
    \/ \E images \in {0, 1} : HandleGenerateQuote(images)
    \/ ModelCallResolvesForStore
    \/ ModelCallResolvesInvalid
    \/ ModelCallRejectsOnce
    \/ HandleReset
    \/ ShowHistory
    \/ ShowSettings
    \/ \E i \in 1..Len(savedQuotes) : HandleViewQuote(savedQuotes[i].id)
    \/ HandleSave
    \/ ShowQuoteView
    \/ ShowReportView
    \/ HandleGenerateReport
    \/ \E call \in ReportCalls : ReportSettles(call)
    \/ OrphanedReportSettles
    \/ HandleReportUpdate
    \/ HandleDownloadPdf
    \/ GeneratePdf

SpecUi == InitUi /\ [][NextUi]_vars

\* a generated quote under every edit handler, saved and updated
NextEdits ==
    \/ HandleGenerateQuote(0)
    \/ ModelCallResolvesInApp
    \/ \E i \in 1..Len(savedQuotes) : HandleViewQuote(savedQuotes[i].id)
    \/ HandlePriceChange(1, "50")
    \/ HandleQuantityChange(1, "2")
    \/ HandleTaxChange(1, "23")
    \/ \E v \in TitleInputs : HandleTitleChange(1, v)
    \/ \E v \in DescriptionInputs : HandleDescriptionChange(1, v)
    \/ \E f \in ClientFields, v \in ClientInputs : HandleClientDataChange(f, v)
    \/ HandleSave
    \/ ShowHistory

SpecEdits == InitGen /\ [][NextEdits]_vars

\* the PDF export of a generated quote, step by step: the timers the effect
\* sets, each generatePdf from its start to its end
NextPdf ==
    \/ HandleGenerateQuote(1)
    \/ ModelCallResolvesForStore
    \/ ShowQuoteView
    \/ ShowReportView
    \/ HandleGenerateReport
    \/ \E call \in ReportCalls : ReportSettles(call)
    \/ HandleDownloadPdf
    \/ PdfTimerFires
    \/ PdfSaved
    \/ PdfRasterFails

SpecPdf == InitUi /\ [][NextPdf]_vars

\* a timer set with setTimeout fires, and a generatePdf that has begun comes
\* to its end, by saving or by the rejection of html2canvas; nothing makes
\* the user act
SpecPdfFair ==
    /\ SpecPdf
    /\ WF_vars(PdfTimerFires)
    /\ WF_vars(PdfSaved \/ PdfRasterFails)

\* the heights of a section's image: three of the smallest fit a page, two
\* of 136 fit it exactly, two of 137 do not, 277 fills it and 278 does not
\* fit it
SectionHeights == { 89, 136, 137, PdfHeight - 2 * Margin, PdfHeight - 2 * Margin + 1 }

SectionInputs == { Section(h, b) : h \in SectionHeights, b \in BOOLEAN }

\* the section lists of the element exported
SectionLists(n) == UNION { [1..k -> SectionInputs] : k \in 0..n }

\* lines 171-201: the loop of generatePdf takes the next section
PlaceSection ==
    /\ doc.next <= Len(doc.sections)
    /\ doc' = Place(doc, doc.sections[doc.next])
    /\ UNCHANGED <<page, error, currentQuote, savedQuotes, nextId, gqPc, gqCall,
                   gqOutcome, editedQuote, lastEdit, gqInFlight, currentImages,
                   userSettings, storage, startup, qr, reportCalls, inv, pdf,
                   service>>

\* generatePdf at line 164, on any list of sections
InitPages ==
    /\ AppAtRest
    /\ service = LoadedService
    /\ \E sections \in SectionLists(MaxSections) : doc = NewDoc(sections)

NextPages == PlaceSection

SpecPages == InitPages /\ [][NextPages]_vars

-----------------------------------------------------------------------------
(* One invocation of generateQuote or generateTechnicalReport, step by     *)
(* step: the image reads, the model call, the parse.                       *)

ServiceFunctions == { "generateQuote", "generateTechnicalReport" }

\* geminiService lines 62-74 and 155-169
TextPart == [kind |-> "text", image |-> 0, data |-> ""]

\* lines 50-56: the part made of image i, data being what the read gave
ImagePart(i, data) == [kind |-> "inlineData", image |-> i, data |-> data]

\* lines 41-47: what the reader hands over for image i: the base64 text
\* after the comma when the result is a string, else the empty string
ReadResult(i, isString) == IF isString THEN <<"base64", i>> ELSE <<>>

\* the parts, had each image part been appended as its read completed
RequestPartsAsCompleted(call) ==
    << TextPart >> \o [k \in 1..Len(call.read) |->
                          ImagePart(call.read[k], call.results[call.read[k]])]

\* lines 77 and 170 with 104 and 231: Promise.all keeps the results by
\* index, and the parts follow the text part
RequestParts(call) ==
    << TextPart >> \o [i \in 1..call.images |-> ImagePart(i, call.results[i])]

ServiceFrame ==
    UNCHANGED <<page, error, currentQuote, savedQuotes, nextId, gqPc, gqCall,
                gqOutcome, editedQuote, lastEdit, gqInFlight, currentImages,
                userSettings, storage, startup, qr, reportCalls, pdf, doc>>

\* geminiService lines 30-36: the module is loaded, its top-level
\* statements run
LoadModule ==
    /\ service.status = "loading"
    /\ service' = Loaded(service.env)
    /\ UNCHANGED inv
    /\ ServiceFrame

\* lines 77 and 170: images.map(fileToGenerativePart) starts every read;
\* the functions are there to be called once the module has loaded
Invoke(fn, images) ==
    /\ service.status = "loaded"
    /\ inv.pc \in {"idle", "done"}
    /\ inv' = [fn |-> fn, pc |-> "reading", images |-> images,
               pending |-> 1..images, read |-> <<>>,
               results |-> [i \in 1..images |-> <<>>],
               parts |-> <<>>, calls |-> 0, outcome |-> "none", error |-> ""]
    /\ UNCHANGED service
    /\ ServiceFrame

\* lines 40-47: onloadend of the reader of image i
ReadCompletes(i, isString) ==
    /\ inv.pc = "reading"
    /\ i \in inv.pending
    /\ inv' = [inv EXCEPT !.pending = @ \ {i},
                          !.read = Append(@, i),
                          !.results[i] = ReadResult(i, isString)]
    /\ UNCHANGED service
    /\ ServiceFrame

\* lines 101-108 and 229-236: Promise.all has resolved, the request is
\* built and ai.models.generateContent is called
IssueModelCall ==
    /\ service.client # <<>>
    /\ inv.pc = "reading"
    /\ inv.pending = {}
    /\ inv' = [inv EXCEPT !.pc = "awaitModel",
                          !.parts = RequestParts(inv),
                          !.calls = @ + 1]
    /\ UNCHANGED service
    /\ ServiceFrame

\* the ways the model call ends: a response that parses and has the shape
\* asked for, a response that does not, a failure of the call
CallEndings == { "valid", "invalid", "rejected" }

\* lines 146-149 and 242-245: the error thrown for a response that does
\* not parse; a failure of the call itself, awaited outside the try block,
\* reaches the caller as it is
ParseFailure(fn) ==
    IF fn = "generateQuote" THEN MalformedResponse
    ELSE ReportFailure

\* the invocation, had a failure sent it back to the model call
SettledWithRetry(call, ending) ==
    IF ending = "valid"
    THEN [call EXCEPT !.pc = "done", !.outcome = "returned"]
    ELSE [call EXCEPT !.pc = "reading"]

\* lines 110-149 and 238-245: the invocation after its model call has
\* ended: it returns or throws
Settled(call, ending) ==
    [call EXCEPT !.pc = "done",
                 !.outcome = IF ending = "valid" THEN "returned" ELSE "threw",
                 !.error = IF ending = "valid" THEN ""
                           ELSE IF ending = "rejected" THEN "network"
                           ELSE ParseFailure(call.fn)]

ModelCallEnds(ending) ==
    /\ inv.pc = "awaitModel"
    /\ inv' = Settled(inv, ending)
    /\ UNCHANGED service
    /\ ServiceFrame

\* the values a variable of the environment is taken to have
KeyValues == { Undef, Str(""), Str("k1") }

Envs == { Env(apiKey, viteApiKey) : apiKey \in KeyValues, viteApiKey \in KeyValues }

InitCalls == AppAtRest /\ doc = NoDoc /\ \E env \in Envs : service = Unloaded(env)

NextCalls ==
    \/ LoadModule
    \/ \E fn \in ServiceFunctions, images \in 0..MaxImages : Invoke(fn, images)
    \/ \E i \in 1..MaxImages, isString \in BOOLEAN : ReadCompletes(i, isString)
    \/ IssueModelCall
    \/ \E ending \in CallEndings : ModelCallEnds(ending)

SpecCalls == InitCalls /\ [][NextCalls]_vars

-----------------------------------------------------------------------------
(* Properties of generateQuote, under SpecGen *)

\* an invocation of generateQuote has finished on a model call that returned
Answered == gqPc \in {"returned", "threw"} /\ gqCall # <<>> /\ gqCall[1].ok

TheResponse == gqCall[1].response

\* <<>> when the response has no text or its candidate text is no JSON,
\* else <<the object parsed from it>>
TheParsedJson ==
    IF TheResponse.hasText
    THEN JsonParse(CandidateText(TheResponse.text), TheResponse.payload)
    ELSE <<>>

HasNullStep(steps) == \E i \in 1..Len(steps.items) : steps.items[i].t = "null"

\* the returned steps are the response's steps, one for one and in order,
\* each with userPrice the same value as suggestedPrice
StepsPreserved ==
    /\ gqOutcome.kind = "return"
    /\ LET items == TheParsedJson[1].steps.items
           steps == gqOutcome.quote[1].steps
       IN  /\ Len(steps) = Len(items)
           /\ \A i \in 1..Len(items) :
                 /\ steps[i].title = items[i].title
                 /\ steps[i].description = items[i].description
                 /\ steps[i].userPrice = steps[i].suggestedPrice

\* C1 as stated: whenever the parsed JSON has a title and a steps array,
\* generateQuote returns a step list of the same length and order with
\* userPrice equal to suggestedPrice in every step.
C1_Original ==
    ( /\ Answered
      /\ TheParsedJson # <<>>
      /\ TheParsedJson[1].title # Undef
      /\ TheParsedJson[1].steps.t = "array" ) => StepsPreserved

\* C1 as amended: whenever the parsed JSON has a non-empty title and a steps
\* array none of whose elements is null, generateQuote returns a step list
\* of the same length and order, and every returned step has userPrice the
\* same value as suggestedPrice (NaN in both when the price is not numeric).
C1_StepsPreserved ==
    ( /\ Answered
      /\ TheParsedJson # <<>>
      /\ Truthy(TheParsedJson[1].title)
      /\ TheParsedJson[1].steps.t = "array"
      /\ ~HasNullStep(TheParsedJson[1].steps) ) => StepsPreserved

\* a returned quote of two steps that differ in price, the first one priced
\* by a nested unitPrice
C1_Witness ==
    /\ Answered
    /\ gqOutcome.kind = "return"
    /\ Len(gqOutcome.quote[1].steps) = 2
    /\ TheParsedJson[1].steps.items[1].suggestedPrice.t = "object"
    /\ gqOutcome.quote[1].steps[1].userPrice = Num(30)
    /\ gqOutcome.quote[1].steps[2].userPrice = Num(50)

\* the JSON text inside a response of the form fence, optional json tag,
\* whitespace, text, whitespace, fence; <<>> when the text has no such form
Unfenced(text) ==
    LET t == Trim(text)
    IN  IF Len(t) >= 2 /\ t[1] = "F" /\ t[Len(t)] = "F"
        THEN LET inner == SubSeq(t, 2, Len(t) - 1)
                 body == IF inner # <<>> /\ inner[1] = "j" THEN Tail(inner) ELSE inner
             IN  << Trim(body) >>
        ELSE <<>>

\* C5: a response whose JSON is wrapped in a fenced block gives the same
\* result as the same JSON unwrapped, and a response without any fence is
\* parsed as its trimmed text.
C5_FencedSameAsBare ==
    ( Answered /\ TheResponse.hasText ) =>
        /\ LET inner == Unfenced(TheResponse.text)
           IN  ( /\ inner # <<>>
                 /\ JsonParse(inner[1], TheResponse.payload) # <<>> ) =>
                   gqOutcome = GenerateQuoteParse(
                                   Response(inner[1], TheResponse.payload), Currency, City)
        /\ ( \A i \in 1..Len(TheResponse.text) : TheResponse.text[i] # "F" ) =>
               CandidateText(TheResponse.text) = Trim(TheResponse.text)

\* C6: a response that parses as JSON but lacks a non-empty title or an
\* array steps makes generateQuote fail with the UnexpectedShape error, and
\* that is the error the caller shows.
C6_ShapeErrorReachesCaller ==
    ( /\ Answered
      /\ TheParsedJson # <<>>
      /\ ~( Truthy(TheParsedJson[1].title) /\ TheParsedJson[1].steps.t = "array" ) )
    => /\ gqOutcome = Throw(UnexpectedShape)
       /\ error = << "Falha ao gerar o orçamento: ", UnexpectedShape >>

\* C7: a JSON syntax error and a shape mismatch surface as one and the same
\* error and no quote is returned or set; a failure of the model call itself
\* is what generateQuote throws, unchanged.
C7_SingleParseError ==
    ( gqPc \in {"returned", "threw"} /\ gqCall # <<>> ) =>
        IF gqCall[1].ok
        THEN ( \/ TheParsedJson = <<>>
               \/ ~( Truthy(TheParsedJson[1].title)
                     /\ TheParsedJson[1].steps.t = "array" ) )
             => /\ gqOutcome = Throw(MalformedResponse)
                /\ currentQuote = <<>>
                /\ error = << "Falha ao gerar o orçamento: ", MalformedResponse >>
        ELSE /\ gqOutcome = Throw(gqCall[1].reason)
             /\ currentQuote = <<>>
             /\ error = << "Falha ao gerar o orçamento: ", gqCall[1].reason >>

\* generateQuote has thrown on a response that is JSON without a title
C7_Witness ==
    /\ Answered
    /\ TheParsedJson # <<>>
    /\ TheParsedJson[1].title = Undef
    /\ TheParsedJson[1].steps.t = "array"
    /\ gqOutcome.kind = "throw"
    /\ page = "form"

\* the shapes of suggestedPrice and suggestedQuantity that C8 lists
ListedShape(item) ==
    /\ \/ item.suggestedPrice.t \in {"number", "null", "undefined"}
       \/ /\ item.suggestedPrice.t = "object"
          /\ item.suggestedPrice.unitPrice.t \in {"number", "undefined"}
    /\ item.suggestedQuantity.t \in {"number", "undefined"}

\* C8: every returned step has suggestedPrice the nested unitPrice when
\* present, else the flat suggestedPrice, else 0; suggestedUnit the nested
\* unit; quantity the model's quantity, 1 when absent; taxRate 0; and no
\* numeric field is NaN, for each listed shape of suggestedPrice.
C8_StepsNormalized ==
    ( Answered /\ gqOutcome.kind = "return" ) =>
        \A i \in 1..Len(gqOutcome.quote[1].steps) :
            LET item == TheParsedJson[1].steps.items[i]
                step == gqOutcome.quote[1].steps[i]
                sp == item.suggestedPrice
            IN  ListedShape(item) =>
                  /\ step.suggestedPrice =
                        IF sp.t = "object" /\ sp.unitPrice.t = "number"
                        THEN Norm(sp.unitPrice.n, sp.unitPrice.d)
                        ELSE IF sp.t = "number" THEN Norm(sp.n, sp.d) ELSE Num(0)
                  /\ step.suggestedUnit = IF sp.t = "object" THEN sp.unit ELSE Undef
                  /\ step.quantity =
                        IF item.suggestedQuantity.t = "number"
                        THEN item.suggestedQuantity ELSE Num(1)
                  /\ step.taxRate = Num(0)
                  /\ IsNum(step.suggestedPrice) /\ IsNum(step.userPrice)
                  /\ IsNum(step.quantity) /\ IsNum(step.taxRate)

AllQuantitiesNonNegative(quotes) ==
    \A k \in 1..Len(quotes) :
        \A i \in 1..Len(quotes[k].steps) : JsGe0(quotes[k].steps[i].quantity)

\* C9: every step of the quote generateQuote returned, of the current
\* quote, of the edited quote and of every saved quote has quantity >= 0.
C9_QuantityNonNegative ==
    /\ AllQuantitiesNonNegative(gqOutcome.quote)
    /\ AllQuantitiesNonNegative(currentQuote)
    /\ AllQuantitiesNonNegative(editedQuote)
    /\ AllQuantitiesNonNegative(savedQuotes)

-----------------------------------------------------------------------------
(* Properties of the totals, under SpecTotals.  The expected amounts are    *)
(* integers in hundredths; a member that is not a number counts as 0.       *)

EditedSteps == editedQuote[1].steps

\* the value of a member, which is a whole number when it is a number, and
\* 0 when it is missing or not a number
Value0(x) == IF IsNum(x) /\ x.d = 0 THEN x.n ELSE 0

\* a number of at most two decimals, in hundredths
InHundredths(v) == v.n * Pow100(1 - v.d)

RECURSIVE ExpectedSubtotal100(_)
ExpectedSubtotal100(steps) ==
    IF steps = <<>> THEN 0
    ELSE 100 * Value0(Head(steps).userPrice) * Value0(Head(steps).quantity)
         + ExpectedSubtotal100(Tail(steps))

RECURSIVE ExpectedTax100(_)
ExpectedTax100(steps) ==
    IF steps = <<>> THEN 0
    ELSE Value0(Head(steps).userPrice) * Value0(Head(steps).quantity)
            * Value0(Head(steps).taxRate)
         + ExpectedTax100(Tail(steps))

\* C2: for the step list in the editor, subtotal is the sum of
\* userPrice * quantity, totalTax the sum of userPrice * quantity *
\* taxRate / 100, and grandTotal is exactly subtotal + totalTax.
C2_Totals ==
    Mounted =>
        LET totals == Totals(EditedSteps)
            sub == totals.subtotal
            tax == totals.totalTax
            grand == totals.grandTotal
        IN  /\ IsNum(sub) /\ sub.d <= 1
            /\ IsNum(tax) /\ tax.d <= 1
            /\ IsNum(grand) /\ grand.d <= 1
            /\ InHundredths(sub) = ExpectedSubtotal100(EditedSteps)
            /\ InHundredths(tax) = ExpectedTax100(EditedSteps)
            /\ InHundredths(grand) = InHundredths(sub) + InHundredths(tax)

\* the editor shows the steps {50, 1, 0} and {30, 3, 10}: 140 + 9 = 149
C2_Witness ==
    /\ Mounted
    /\ Len(EditedSteps) = 2
    /\ EditedSteps[1].userPrice = Num(50) /\ EditedSteps[1].quantity = Num(1)
    /\ EditedSteps[1].taxRate = Num(0)
    /\ EditedSteps[2].userPrice = Num(30) /\ EditedSteps[2].quantity = Num(3)
    /\ EditedSteps[2].taxRate = Num(10)
    /\ Totals(EditedSteps) =
          [subtotal |-> Num(140), totalTax |-> Num(9), grandTotal |-> Num(149)]

RECURSIVE SumOfLineTotals(_)
SumOfLineTotals(steps) ==
    IF steps = <<>> THEN Num(0)
    ELSE JsAdd(LineTotalWithTax(Head(steps)), SumOfLineTotals(Tail(steps)))

\* C3: the line total with tax of every step in the editor is
\* userPrice * quantity * (1 + taxRate / 100), and these line totals add up
\* to the grandTotal of the same step list.
C3_LineTotals ==
    Mounted =>
        /\ \A i \in 1..Len(EditedSteps) :
              LET line == LineTotalWithTax(EditedSteps[i])
              IN  /\ IsNum(line) /\ line.d <= 1
                  /\ InHundredths(line) =
                        Value0(EditedSteps[i].userPrice) * Value0(EditedSteps[i].quantity)
                            * (100 + Value0(EditedSteps[i].taxRate))
        /\ SumOfLineTotals(EditedSteps) = Totals(EditedSteps).grandTotal

\* the editor shows a step without quantity and the step {30, 3, 10},
\* whose line total is 99
C3_Witness ==
    /\ Mounted
    /\ Len(EditedSteps) = 2
    /\ EditedSteps[1].userPrice = Num(50) /\ EditedSteps[1].quantity = Undef
    /\ LineTotalWithTax(EditedSteps[1]) = Num(0)
    /\ LineTotalWithTax(EditedSteps[2]) = Num(99)
    /\ Totals(EditedSteps).grandTotal = Num(99)

NumericFields == {"userPrice", "quantity", "taxRate"}

\* C4: a member userPrice, quantity or taxRate that is missing or not a
\* number contributes to subtotal, totalTax and grandTotal as 0 would in
\* its place, whatever the other members of the step are.
C4_MissingAsZero ==
    Mounted =>
        LET totals == Totals(EditedSteps)
        IN  \A i \in 1..Len(EditedSteps) : \A f \in NumericFields :
                ~IsNum(EditedSteps[i][f]) =>
                    /\ IsNum(totals.subtotal)
                    /\ IsNum(totals.totalTax)
                    /\ IsNum(totals.grandTotal)
                    /\ totals = Totals([EditedSteps EXCEPT ![i][f] = Num(0)])

\* the editor shows a step with userPrice missing, quantity null and a
\* numeric taxRate, next to a step that totals 99
C4_Witness ==
    /\ Mounted
    /\ Len(EditedSteps) = 2
    /\ EditedSteps[1].userPrice = Undef
    /\ EditedSteps[1].quantity = Null
    /\ EditedSteps[1].taxRate = Num(10)
    /\ Totals(EditedSteps).grandTotal = Num(99)

-----------------------------------------------------------------------------
(* Properties of the edit handlers, under Spec *)

EditedField ==
    CASE lastEdit.handler = "price" -> EditedSteps[lastEdit.index].userPrice
      [] lastEdit.handler = "quantity" -> EditedSteps[lastEdit.index].quantity
      [] lastEdit.handler = "tax" -> EditedSteps[lastEdit.index].taxRate

-----------------------------------------------------------------------------
(* Properties of the quote editor and of saving, under SpecEdits *)

\* the steps generateQuote returned, the one generation of SpecEdits
GeneratedSteps == gqOutcome.quote[1].steps

\* steps carry the suggestions of the generated steps
SameSuggestions(steps, generated) ==
    /\ Len(steps) = Len(generated)
    /\ \A i \in 1..Len(steps) :
          /\ steps[i].suggestedPrice = generated[i].suggestedPrice
          /\ steps[i].suggestedUnit = generated[i].suggestedUnit

\* C11: after any sequence of edits in the quote editor every step's
\* suggestedPrice and suggestedUnit are the values generation produced, and
\* every quote saved or updated from the editor carries them unchanged.
C11_SuggestionsKept ==
    gqOutcome.kind = "return" =>
        /\ Mounted => SameSuggestions(editedQuote[1].steps, GeneratedSteps)
        /\ \A k \in 1..Len(savedQuotes) :
              SameSuggestions(savedQuotes[k].steps, GeneratedSteps)

-----------------------------------------------------------------------------
(* Properties of the App's operations, under SpecUi *)

\* the operations in progress
GeneratingQuote == gqInFlight > 0
GeneratingReport == qr.isGeneratingReport \/ reportCalls.orphaned > 0
ExportingPdf == qr.isPrinting

\* the model calls in flight
ModelCallsInFlight == gqInFlight + reportCalls.mounted + reportCalls.orphaned

\* C12: generate-quote, generate-report and export-PDF are mutually
\* exclusive, no two of them being in progress in the same state, and at most
\* one model call is in flight.
C12_MutuallyExclusive ==
    /\ ~(GeneratingQuote /\ GeneratingReport)
    /\ ~(GeneratingQuote /\ ExportingPdf)
    /\ ~(GeneratingReport /\ ExportingPdf)
    /\ ModelCallsInFlight <= 1

\* C20: in every state with a generateQuote call in flight the page is
\* "loading".
C20_LoadingWhileInFlight == gqInFlight > 0 => page = "loading"

-----------------------------------------------------------------------------
(* Properties of one invocation of the service, under SpecCalls *)

\* C13: an invocation of generateQuote or generateTechnicalReport issues
\* exactly one model call, whether it returns or throws: none before the
\* reads are joined, one from then on, and never a second one.
C13_OneModelCall ==
    /\ inv.calls <= 1
    /\ inv.pc = "reading" => inv.calls = 0
    /\ inv.pc \in {"awaitModel", "done"} => inv.calls = 1
    /\ inv.pc = "done" => inv.outcome \in {"returned", "threw"}

\* generateTechnicalReport has thrown after its one model call
C13_Witness ==
    /\ inv.fn = "generateTechnicalReport"
    /\ inv.pc = "done"
    /\ inv.outcome = "threw"
    /\ inv.calls = 1

\* C14: whatever the order in which the image reads complete, the model call
\* is issued only once every read has completed, and its request holds the
\* text part first and then one part per image, in the order of the images
\* array, each with the data read from that image.
C14_PartsInInputOrder ==
    inv.calls > 0 =>
        /\ inv.pending = {}
        /\ Len(inv.read) = inv.images
        /\ Len(inv.parts) = inv.images + 1
        /\ inv.parts[1] = TextPart
        /\ \A i \in 1..inv.images :
              /\ inv.parts[i + 1].kind = "inlineData"
              /\ inv.parts[i + 1].image = i
              /\ inv.parts[i + 1].data = inv.results[i]

\* the second image was read before the first; the first comes first
C14_Witness ==
    /\ inv.calls = 1
    /\ inv.images = 2
    /\ inv.read = << 2, 1 >>
    /\ inv.parts[2].image = 1
    /\ inv.parts[3].image = 2

-----------------------------------------------------------------------------
(* Properties of the saved quotes and of their storage, under SpecStore *)

\* what is stored matches what the App holds
StorageInStep ==
    /\ storage.savedQuotes = << savedQuotes >>
    /\ storage.userSettings = << userSettings >>

\* the step of the startup that hands over to the event handlers
StartupCompletes == startup.pc # "ready" /\ startup'.pc = "ready"

SavedIds == { savedQuotes[i].id : i \in 1..Len(savedQuotes) }

\* C16: saving the quote of the result page appends exactly one entry, the
\* edited quote under a permanent id no saved quote has and with a new date;
\* in every state the saved quotes have pairwise distinct ids, none of them
\* a temporary one.
C16_SaveAppendsUnderNewId ==
    /\ [](/\ \A i, j \in 1..Len(savedQuotes) :
                 savedQuotes[i].id = savedQuotes[j].id => i = j
          /\ \A i \in 1..Len(savedQuotes) : savedQuotes[i].id.kind = "saved")
    /\ [][ (HandleSave /\ page = "result") =>
              LET saved == savedQuotes'[Len(savedQuotes')]
              IN  /\ Len(savedQuotes') = Len(savedQuotes) + 1
                  /\ SubSeq(savedQuotes', 1, Len(savedQuotes)) = savedQuotes
                  /\ saved.id.kind = "saved"
                  /\ saved.id \notin SavedIds
                  /\ saved.id # editedQuote[1].id
                  /\ saved.date # editedQuote[1].date
                  /\ saved = [editedQuote[1] EXCEPT !.id = saved.id,
                                                     !.date = saved.date]
         ]_vars

\* two quotes generated and saved in this session, next to the one found
C16_Witness ==
    /\ page = "history"
    /\ Len(savedQuotes) = 3
    /\ savedQuotes[2].id.kind = "saved"
    /\ savedQuotes[3].id.kind = "saved"
    /\ savedQuotes[2].id # savedQuotes[3].id

\* C17: updating the saved quote opened from history replaces exactly the
\* entry of the same id by the edited quote: one entry has that id, and the
\* length of the list, its order and every other entry are unchanged.
C17_UpdateReplacesById ==
    [][ (HandleSave /\ page = "view") =>
           LET edited == editedQuote[1]
               hits == { i \in 1..Len(savedQuotes) : savedQuotes[i].id = edited.id }
           IN  /\ Cardinality(hits) = 1
               /\ Len(savedQuotes') = Len(savedQuotes)
               /\ \A i \in 1..Len(savedQuotes) :
                     savedQuotes'[i] = IF i \in hits THEN edited ELSE savedQuotes[i]
      ]_vars

\* the second of two saved quotes was retitled and updated, the first is as
\* it was found
C17_Witness ==
    /\ page = "history"
    /\ Len(savedQuotes) = 2
    /\ startup.found.savedQuotes # <<>>
    /\ savedQuotes[1] = startup.found.savedQuotes[1][1]
    /\ savedQuotes[2].steps[1].title = Str("Pintura")
    /\ savedQuotes[2].id.kind = "saved"

-----------------------------------------------------------------------------
(* Properties of the report and of a failed generation, under SpecUi *)

\* the members of a quote
QuoteFields == DOMAIN StoredQuote(<< >>)

\* a step after which QuoteResult shows a quote it did not show before
QuoteDisplayed ==
    /\ editedQuote' # <<>>
    /\ editedQuote = <<>> \/ editedQuote'[1].id # editedQuote[1].id

\* C18: the report lives in the QuoteResult that generated it and nowhere
\* else: whatever is generated, edited, saved, updated or exported, a saved
\* quote and a stored quote hold the members of a quote and nothing more,
\* storage holds the two items 'savedQuotes' and 'userSettings' only, no
\* report is held while no quote is displayed, and a quote newly displayed
\* comes without report.
C18_ReportOnlyInMemory ==
    /\ [](/\ \A k \in 1..Len(savedQuotes) : DOMAIN savedQuotes[k] = QuoteFields
          /\ DOMAIN storage = {"savedQuotes", "userSettings"}
          /\ \A k \in 1..Len(storage.savedQuotes[1]) :
                DOMAIN storage.savedQuotes[1][k] = QuoteFields
          /\ ~qr.mounted => qr.reportData = <<>>)
    /\ [][ QuoteDisplayed => qr'.reportData = <<>> ]_vars

\* a quote was saved, and the quote now shown has a report that was edited
C18_Witness ==
    /\ page = "result"
    /\ Len(savedQuotes) = 2
    /\ qr.viewMode = "quote"
    /\ qr.reportData # <<>>
    /\ "technician" \in DOMAIN qr.reportData[1]
    /\ qr.reportData[1].technician = "Rui"

\* the step in which a generateQuote call ends in failure
GenerationFails == gqInFlight' = gqInFlight - 1 /\ gqOutcome'.kind = "throw"

\* C19: a failed generation, the call rejected or the response invalid, ends
\* the operation: the page is the form, the error is the failure's message
\* after 'Falha ao gerar o orçamento: ', the current quote and the saved
\* list (and storage) are as they were, and the form can be submitted again.
C19_FailureIsTerminal ==
    /\ [][ GenerationFails =>
              /\ page' = "form"
              /\ gqOutcome'.error \in {MalformedResponse, "network"}
              /\ error' = << "Falha ao gerar o orçamento: ", gqOutcome'.error >>
              /\ currentQuote' = currentQuote
              /\ savedQuotes' = savedQuotes
              /\ storage' = storage
         ]_vars
    /\ []( ( /\ gqPc = "threw" /\ page = "form"
             /\ gqInFlight < MaxCalls /\ nextId + gqInFlight < MaxClock )
           => ENABLED HandleGenerateQuote(0) )

\* the response was not JSON while a saved quote was the current quote
C19_Witness ==
    /\ gqPc = "threw"
    /\ page = "form"
    /\ error = << "Falha ao gerar o orçamento: ", MalformedResponse >>
    /\ currentQuote # <<>>
    /\ Len(savedQuotes) = 1

-----------------------------------------------------------------------------
(* Properties of the service module, under SpecCalls *)

\* a variable of the environment holds a key
Configured(v) == v.t = "string" /\ v.s # ""

\* C21: with neither API_KEY nor VITE_API_KEY configured the module fails
\* as it loads: it never counts as loaded, no client is created, and no
\* invocation of generateQuote or generateTechnicalReport begins, so that no
\* call reaches the model.
C21_NoKeyNoService ==
    ( ~Configured(service.env.API_KEY) /\ ~Configured(service.env.VITE_API_KEY) )
        => /\ service.status \in {"loading", "failed"}
           /\ service.client = <<>>
           /\ inv = NoInvocation
           /\ ~ENABLED LoadModule => service.status = "failed"

\* the module has failed to load in an environment without keys
C21_Witness ==
    /\ service.env = Env(Undef, Undef)
    /\ service.status = "failed"
    /\ service.client = <<>>
    /\ inv.calls = 0

-----------------------------------------------------------------------------
(* The total of the history list, under SpecTotals *)

\* C24: for every saved quote the total the history list shows is the
\* grandTotal the editor computes for the same steps.
C24_HistoryTotalIsGrandTotal ==
    \A k \in 1..Len(savedQuotes) :
        HistoryTotal(savedQuotes[k].steps) = Totals(savedQuotes[k].steps).grandTotal

-----------------------------------------------------------------------------
(* Completions of generateQuote that come late, under SpecUi *)

\* the step in which a generateQuote call ends, well or not
GenerationEnds == gqInFlight' = gqInFlight - 1

\* C25: a generateQuote call that ends after the user has left the loading
\* page, or while a generation started later is pending, changes neither
\* the page nor the current quote.
C25_LateCompletionIgnored ==
    [][ ( GenerationEnds /\ (page # "loading" \/ gqInFlight > 1) )
            => ( page' = page /\ currentQuote' = currentQuote )
      ]_vars

-----------------------------------------------------------------------------
(* Properties of the report, under SpecUi *)

\* the response of a settled call is there and is JSON text
ValidJson(call) ==
    /\ call.ok
    /\ call.response.hasText
    /\ JsonParse(call.response.text, call.response.payload) # <<>>

\* the step in which generateTechnicalReport throws in the mounted instance
ReportFails ==
    /\ reportCalls'.mounted = reportCalls.mounted - 1
    /\ reportCalls'.last # <<>>
    /\ reportCalls'.last[1].outcome.kind = "throw"

\* C22: generateTechnicalReport returns the value parsed from a response
\* that is JSON text as it is, whatever its members; it throws the one error
\* for the user exactly when the response is not JSON text (a failure of
\* the call itself is passed on as it is); and when it throws,
\* QuoteResult keeps its reportData and its view mode.
C22_ReportAsParsed ==
    /\ [](reportCalls.last # <<>> =>
            LET call == reportCalls.last[1].call
                outcome == reportCalls.last[1].outcome
            IN  /\ ValidJson(call) =>
                      /\ outcome = Return(call.response.payload)
                      /\ qr.mounted /\ ~qr.isGeneratingReport
                            => qr.reportData # <<>>
                /\ (call.ok /\ ~ValidJson(call)) => outcome = Throw(ReportFailure)
                /\ ~call.ok => outcome = Throw(call.reason)
                /\ outcome.error = ReportFailure <=> (call.ok /\ ~ValidJson(call)))
    /\ [][ ReportFails => /\ qr'.reportData = qr.reportData
                          /\ qr'.viewMode = qr.viewMode
                          /\ ~qr'.isGeneratingReport ]_vars

\* the report came in a fence: no report is kept, the quote view stays
C22_Witness ==
    /\ reportCalls.last # <<>>
    /\ reportCalls.last[1].call.ok
    /\ reportCalls.last[1].call.response.text = << "F", "j", "o", "c", "F" >>
    /\ reportCalls.last[1].outcome = Throw(ReportFailure)
    /\ qr.mounted
    /\ qr.reportData = <<>>
    /\ qr.viewMode = "quote"
    /\ ~qr.isGeneratingReport

\* the step in which a QuoteResult calls generateTechnicalReport
ReportCallIssued == reportCalls'.mounted = reportCalls.mounted + 1

\* C28: generateTechnicalReport is called with images only: every call is
\* made on the result page with at least one image kept and no report at
\* hand; a quote opened from the history has no images and cannot call it;
\* and with a report at hand the button shows the report, calling nothing.
C28_ReportNeedsImages ==
    /\ [][ ReportCallIssued => /\ currentImages > 0
                               /\ page = "result"
                               /\ qr.reportData = <<>> ]_vars
    /\ []( (page = "view" /\ Mounted) =>
              /\ currentImages = 0
              /\ ~ENABLED HandleGenerateReport )
    /\ []( (Mounted /\ qr.reportData # <<>>) => ~ENABLED HandleGenerateReport )

\* a report is at hand on the result page, the quote view shown: the button
\* leads to the report
C28_Witness ==
    /\ page = "result"
    /\ currentImages = 1
    /\ qr.reportData = << TheReport >>
    /\ qr.viewMode = "quote"
    /\ ENABLED ShowReportView
    /\ reportCalls.mounted = 0

\* a step in which the mounted editor's copy changes
EditorEdit == Mounted /\ Mounted' /\ editedQuote' # editedQuote

\* a step in which a QuoteResult mounts
EditorMounts == ~Mounted /\ Mounted'

\* C29: an edit of the editor changes neither the App's current quote nor
\* the saved list nor storage; only save/update changes the saved list and
\* storage; and an editor always starts from a copy of the App's quote,
\* which on the view page is an entry of the saved list, so edits left
\* behind without saving are gone.
C29_EditsArePrivate ==
    /\ [][ EditorEdit => UNCHANGED <<currentQuote, savedQuotes, storage>> ]_vars
    /\ [][ HandleSave \/ UNCHANGED <<savedQuotes, storage>> ]_vars
    /\ [][ EditorMounts =>
             /\ editedQuote' = << DeepCopy(currentQuote'[1]) >>
             /\ page' = "view" =>
                  \E i \in 1..Len(savedQuotes') : savedQuotes'[i] = currentQuote'[1]
         ]_vars

\* a saved quote is open in the editor with its step retitled, the saved
\* list and storage still holding it as saved
C29_Witness ==
    /\ page = "view"
    /\ Mounted
    /\ editedQuote[1].steps[1].title # currentQuote[1].steps[1].title
    /\ \E i \in 1..Len(savedQuotes) : savedQuotes[i] = currentQuote[1]
    /\ storage.savedQuotes = << StringifyQuotes(savedQuotes) >>

\* the list without its entry at index i, the others in their order
WithoutEntry(quotes, i) ==
    [k \in 1..(Len(quotes) - 1) |-> IF k < i THEN quotes[k] ELSE quotes[k + 1]]

\* C30: a confirmed deletion removes the entry of the given id, the only
\* one of that id, keeps every other entry in its order and rewrites
\* storage to the new list; a declined one leaves the saved list and
\* storage as they are; and the saved list never shrinks in any other step.
C30_DeleteRemovesOneWhenConfirmed ==
    /\ [][ \A i \in 1..Len(savedQuotes) :
             /\ HandleDeleteQuote(savedQuotes[i].id, TRUE) =>
                  /\ savedQuotes' = WithoutEntry(savedQuotes, i)
                  /\ storage'.savedQuotes = << StringifyQuotes(savedQuotes') >>
             /\ HandleDeleteQuote(savedQuotes[i].id, FALSE) =>
                  UNCHANGED <<savedQuotes, storage>>
         ]_vars
    /\ [][ Len(savedQuotes') < Len(savedQuotes) =>
             \E i \in 1..Len(savedQuotes) :
                 HandleDeleteQuote(savedQuotes[i].id, TRUE)
         ]_vars

\* the quote found at startup was deleted; the two saved since are left, in
\* the order they were saved in, in memory and in storage
C30_Witness ==
    /\ page = "history"
    /\ startup.found.savedQuotes # <<>>
    /\ Len(savedQuotes) = 2
    /\ \A i \in 1..2 : /\ savedQuotes[i].id.kind = "saved"
                       /\ savedQuotes[i].id # startup.found.savedQuotes[1][1].id
    /\ savedQuotes[1].date < savedQuotes[2].date
    /\ storage.savedQuotes = << StringifyQuotes(savedQuotes) >>

-----------------------------------------------------------------------------
(* Properties of the PDF export, under SpecPdf and SpecPdfFair *)

\* C26: one generatePdf and one saved file for each click on the download
\* button: the timers set and the files saved never outnumber the clicks,
\* whatever view switches and report completions fall between.
C26_OnePdfPerClick ==
    /\ TimersSet <= pdf.clicks
    /\ pdf.saved <= pdf.clicks

\* C27: once isPrinting is true it becomes false again, and with it the
\* download and save buttons come back.
C27_PrintingEnds == qr.isPrinting ~> ~qr.isPrinting

-----------------------------------------------------------------------------
(* Properties of the pagination of generatePdf, under SpecPages *)

\* the height between the margins of a page
UsableHeight == PdfHeight - 2 * Margin

\* C23: the sections are placed in document order; a flagged section and a
\* section that would not fit under the cursor start a new page; so a
\* section no taller than the usable height lies between the margins of
\* its page, and on a page each section ends above the start of the next.
C23_Pagination ==
    LET placed == doc.placed
        n == Len(placed)
    IN  /\ n = doc.next - 1
        /\ \A k \in 1..n :
              /\ placed[k].index = k
              /\ placed[k].height = doc.sections[k].height
              /\ placed[k].page \in 1..doc.pages
              /\ placed[k].y >= Margin
              /\ placed[k].height <= UsableHeight =>
                    placed[k].y + placed[k].height <= PdfHeight - Margin
              /\ doc.sections[k].breakBefore =>
                    /\ placed[k].y = Margin
                    /\ placed[k].page > (IF k = 1 THEN 1 ELSE placed[k - 1].page)
        /\ \A k \in 1..(n - 1) :
              \/ placed[k].page < placed[k + 1].page
              \/ /\ placed[k].page = placed[k + 1].page
                 /\ placed[k].y + placed[k].height <= placed[k + 1].y

\* three sections are placed: the second starts a page by its flag, the
\* third, unflagged and fitting a page, starts the next by overflow
C23_Witness ==
    /\ Len(doc.placed) = 3
    /\ doc.sections[2].breakBefore
    /\ ~doc.sections[3].breakBefore
    /\ doc.sections[3].height <= UsableHeight
    /\ doc.placed[2].page = 2
    /\ doc.placed[3].page = 3
    /\ doc.placed[3].y = Margin

====
